---------------------------- MODULE Spec2Model ----------------------------
(***************************************************************************)
(* A model of openai_api_rs: the request bodies the rq attribute macro     *)
(* generates (init, with_<field>, to_json), the Request trait's            *)
(* execute / execute_blocking (compatibility check, to_json, POST, parse), *)
(* and the Client resolving a Model handle (GET, Model::new_parse_json).   *)
(***************************************************************************)
EXTENDS Integers, Sequences, FiniteSets, TLC

VARIABLES
    body,     \* the request body (a <Family>Request value)
    hist,     \* the with_<field> calls applied to it since init, in order
    json,     \* the result of the last to_json on the current body, or NotCalled
    calls,    \* the execute / execute_blocking calls on the body, by call id
    client,   \* the Client: its API key and organization
    http,     \* the HTTP exchanges the Client itself made, in order
    handle,   \* the result of the Client's retrieve_model_info, or NotCalled
    models    \* the result of the Client's list_models, or NotCalled

vars == <<body, hist, json, calls, client, http, handle, models>>
clientvars == <<client, http, handle, models>>

---------------------------------------------------------------------------
(* Bounds of the model *)

\* with_<field> calls on one body
MaxWith == 2
\* execute / execute_blocking calls on one body
MaxCalls == 2

---------------------------------------------------------------------------
(* Option and Result *)

None == [some |-> FALSE]
Some(x) == [some |-> TRUE, v |-> x]

Ok(x) == [ok |-> TRUE, val |-> x]
Err(e) == [ok |-> FALSE, err |-> e]

\* a panic (unwrap on None or Err): the thread unwinds and the function
\* returns nothing to its caller
Panic(where) == [panic |-> where]
IsPanic(x) == "panic" \in DOMAIN x

Range(s) == {s[i] : i \in DOMAIN s}

---------------------------------------------------------------------------
(* JSON values (serde_json::Value) *)

JNull == [t |-> "null"]
JBool(b) == [t |-> "bool", b |-> b]
JInt(n) == [t |-> "number", n |-> n]
JFloat(x) == [t |-> "number", f |-> x]
JString(s) == [t |-> "string", s |-> s]
JArray(s) == [t |-> "array", a |-> s]
JObject(m) == [t |-> "object", o |-> m]

\* f64 values are written as their literals; these are the non-finite ones
NonFinite == {"NaN", "inf", "-inf"}
IsFinite(x) == x \notin NonFinite

---------------------------------------------------------------------------
(* The rq attribute on RequestBody: families, URLs, compatible models *)

Families == {"TextCompletion", "ChatCompletion", "Edit"}

\* (mutant of URL) the literals of the rq attribute omit the API version
URL_unversioned(F) ==
    CASE F = "TextCompletion" -> "https://api.openai.com/completions"
      [] F = "ChatCompletion" -> "https://api.openai.com/chat/completions"
      [] F = "Edit" -> "https://api.openai.com/edits"

URL(F) ==
    CASE F = "TextCompletion" -> "https://api.openai.com/v1/completions"
      [] F = "ChatCompletion" -> "https://api.openai.com/v1/chat/completions"
      [] F = "Edit" -> "https://api.openai.com/v1/edits"

\* (mutant of COMPATIBLE_MODELS) the rq attribute's chat list lacks an
\* identifier that Model::CHAT_COMPLETIONS_COMPATIBLE has
COMPATIBLE_MODELS_stale(F) ==
    CASE F = "TextCompletion" ->
            {"text-davinci-003", "text-davinci-002", "text-curie-001",
             "text-babbage-001", "text-ada-001", "davinci", "curie",
             "babbage", "ada"}
      [] F = "ChatCompletion" ->
            {"gpt-4", "gpt-4-0314", "gpt-4-32k", "gpt-4-32k-0314",
             "gpt-3.5-turbo-0301"}
      [] F = "Edit" -> {"text-davinci-edit-001", "code-davinci-edit-001"}

COMPATIBLE_MODELS(F) ==
    CASE F = "TextCompletion" ->
            {"text-davinci-003", "text-davinci-002", "text-curie-001",
             "text-babbage-001", "text-ada-001", "davinci", "curie",
             "babbage", "ada"}
      [] F = "ChatCompletion" ->
            {"gpt-4", "gpt-4-0314", "gpt-4-32k", "gpt-4-32k-0314",
             "gpt-3.5-turbo", "gpt-3.5-turbo-0301"}
      [] F = "Edit" -> {"text-davinci-edit-001", "code-davinci-edit-001"}

\* The fields of RequestBody in declaration order, each with its type and
\* its #[rq(on(...))] attribute: the families it is on, and where required.
FieldDecls ==
    << [name |-> "messages", ty |-> "Vec<ChatMessage>",
        on |-> {}, req |-> {"ChatCompletion"}],
       [name |-> "prompt", ty |-> "Vec<String>",
        on |-> {"TextCompletion"}, req |-> {}],
       [name |-> "suffix", ty |-> "String",
        on |-> {"TextCompletion"}, req |-> {}],
       [name |-> "max_tokens", ty |-> "u64",
        on |-> {"TextCompletion", "ChatCompletion"}, req |-> {}],
       [name |-> "temperature", ty |-> "f64",
        on |-> {"TextCompletion", "ChatCompletion", "Edit"}, req |-> {}],
       [name |-> "top_p", ty |-> "f64",
        on |-> {"TextCompletion", "ChatCompletion", "Edit"}, req |-> {}],
       [name |-> "input", ty |-> "String",
        on |-> {"Edit"}, req |-> {}],
       [name |-> "instruction", ty |-> "String",
        on |-> {}, req |-> {"Edit"}],
       [name |-> "n", ty |-> "NonZeroU64",
        on |-> {"TextCompletion", "ChatCompletion", "Edit"}, req |-> {}],
       [name |-> "stream", ty |-> "bool",
        on |-> {"TextCompletion", "ChatCompletion"}, req |-> {}],
       [name |-> "logprobs", ty |-> "u8",
        on |-> {"TextCompletion"}, req |-> {}],
       [name |-> "echo", ty |-> "bool",
        on |-> {"TextCompletion"}, req |-> {}],
       [name |-> "stop", ty |-> "Vec<String>",
        on |-> {"TextCompletion", "ChatCompletion"}, req |-> {}],
       [name |-> "presence_penalty", ty |-> "f64",
        on |-> {"TextCompletion", "ChatCompletion"}, req |-> {}],
       [name |-> "frequency_penalty", ty |-> "f64",
        on |-> {"TextCompletion", "ChatCompletion"}, req |-> {}],
       [name |-> "best_of", ty |-> "u64",
        on |-> {"TextCompletion"}, req |-> {}],
       [name |-> "logit_bias", ty |-> "BTreeMap<String,i64>",
        on |-> {"TextCompletion", "ChatCompletion"}, req |-> {}],
       [name |-> "user", ty |-> "String",
        on |-> {"TextCompletion", "ChatCompletion"}, req |-> {}] >>

FieldNames == {FieldDecls[i].name : i \in DOMAIN FieldDecls}
Decl(f) == CHOOSE d \in Range(FieldDecls) : d.name = f
FieldType(f) == Decl(f).ty

\* required_fields / non_required_fields of a substruct, in declaration order
IsReqOf(d, F) == F \in d.req
IsOptOf(d, F) == F \in d.on
required_fields(F) ==
    LET sel(d) == IsReqOf(d, F)
        s == SelectSeq(FieldDecls, sel)
    IN  [i \in DOMAIN s |-> s[i].name]
non_required_fields(F) ==
    LET sel(d) == IsOptOf(d, F)
        s == SelectSeq(FieldDecls, sel)
    IN  [i \in DOMAIN s |-> s[i].name]

ReqFields(F) == Range(required_fields(F))
OptFields(F) == Range(non_required_fields(F))

---------------------------------------------------------------------------
(* The values the model draws for each field type *)

ChatRoles == {"User", "System", "Assistant"}
ChatMessage(r, c) == [role |-> r, content |-> c]

StringVals == {"Say hi", "abc"}
FloatVals == {"0.5", "NaN", "inf"}

Values(ty) ==
    CASE ty = "String" -> StringVals
      [] ty = "Vec<String>" -> {<<"Say hi">>, <<"a", "b">>}
      [] ty = "u64" -> {0, 16}
      [] ty = "u8" -> {0, 5}
      [] ty = "NonZeroU64" -> {1, 2}
      [] ty = "bool" -> BOOLEAN
      [] ty = "f64" -> FloatVals
      [] ty = "BTreeMap<String,i64>" ->
            {[k \in {"50256"} |-> -100], [k \in {"11", "50256"} |-> 1]}
      [] ty = "Vec<ChatMessage>" ->
            {<<ChatMessage("User", "Hello")>>,
             <<ChatMessage("System", "abc"), ChatMessage("Assistant", "Say hi")>>}

\* Model handles (Model<'client>): the id and the client's key and organization
ModelIds == {"text-davinci-003", "gpt-3.5-turbo", "text-davinci-edit-001", "whisper-1"}
ApiKey == "sk-test"
OrgIds == {None}
Models == [id : ModelIds, api_key : {ApiKey}, org_id : OrgIds]

---------------------------------------------------------------------------
(* serde_json::value::to_value at each field type *)

\* (mutant of ChatRoleTag) without the renames serde uses the variant's name
ChatRoleTag_variant_name(r) == r

\* #[serde(rename = ...)] on ChatRole
ChatRoleTag(r) ==
    CASE r = "User" -> "user"
      [] r = "System" -> "system"
      [] r = "Assistant" -> "assistant"

\* Value::from(f64): Number::from_f64(f).map_or(Value::Null, Value::Number)
ValueFromF64(x) == IF IsFinite(x) THEN JFloat(x) ELSE JNull

ChatMessageValue(m) ==
    JObject([k \in {"role", "content"} |->
                IF k = "role" THEN JString(ChatRoleTag(m.role))
                ELSE JString(m.content)])

to_value(ty, x) ==
    CASE ty = "String" -> Ok(JString(x))
      [] ty = "Vec<String>" -> Ok(JArray([i \in DOMAIN x |-> JString(x[i])]))
      [] ty \in {"u64", "u8", "NonZeroU64"} -> Ok(JInt(x))
      [] ty = "bool" -> Ok(JBool(x))
      [] ty = "f64" -> Ok(ValueFromF64(x))
      [] ty = "BTreeMap<String,i64>" -> Ok(JObject([k \in DOMAIN x |-> JInt(x[k])]))
      [] ty = "Vec<ChatMessage>" ->
            Ok(JArray([i \in DOMAIN x |-> ChatMessageValue(x[i])]))

---------------------------------------------------------------------------
(* The generated <Family>Request: init, with_<field>, to_json *)

\* pub fn init(model, required...) -> Self: the others are Default::default()
init(F, model, req) ==
    [family |-> F,
     model |-> model,
     req |-> req,
     opt |-> [f \in OptFields(F) |-> None]]

\* the arguments init can be given for family F
ReqArgs(F) ==
    {r \in [ReqFields(F) -> UNION {Values(FieldType(f)) : f \in ReqFields(F)}] :
        \A f \in ReqFields(F) : r[f] \in Values(FieldType(f))}

\* (mutant of with) a with_<f> that keeps a value already set
with_keep_first(b, f, x) ==
    IF b.opt[f].some THEN b ELSE [b EXCEPT !.opt[f] = Some(x)]

\* (mutant of with) with_<f> starts from a body with every optional field unset
with_reset(b, f, x) ==
    [b EXCEPT !.opt = [g \in DOMAIN @ |-> IF g = f THEN Some(x) ELSE None]]

\* pub fn with_<f>(mut self, f: T) -> Self { self.f = Some(f); self }
with(b, f, x) == [b EXCEPT !.opt[f] = Some(x)]

\* (mutant of to_json_req_fields) the required fields are left out
to_json_req_fields_no_required(b) ==
    <<[key |-> "model", res |-> to_value("String", b.model.id)]>>

\* (mutant of to_json_non_req_fields) a field that is None is emitted as null
to_json_non_req_fields_nulls(b) ==
    LET nf == non_required_fields(b.family)
    IN  [i \in DOMAIN nf |->
            [key |-> nf[i],
             res |-> IF b.opt[nf[i]].some
                     THEN to_value(FieldType(nf[i]), b.opt[nf[i]].v)
                     ELSE Ok(JNull)]]

\* (mutant of to_json_non_req_fields) an empty list is skipped like a None
to_json_non_req_fields_skip_empty(b) ==
    LET isSome(f) == b.opt[f].some
                     /\ ~(FieldType(f) = "Vec<String>" /\ b.opt[f].v = <<>>)
        nf == SelectSeq(non_required_fields(b.family), isSome)
    IN  [i \in DOMAIN nf |->
            [key |-> nf[i], res |-> to_value(FieldType(nf[i]), b.opt[nf[i]].v)]]

\* The entries to_json inserts, in order: "model", the required fields, then
\* each non-required field that is Some; each with to_value's result.
to_json_req_fields(b) ==
    LET rf == required_fields(b.family)
    IN  <<[key |-> "model", res |-> to_value("String", b.model.id)]>>
        \o [i \in DOMAIN rf |->
              [key |-> rf[i], res |-> to_value(FieldType(rf[i]), b.req[rf[i]])]]

to_json_non_req_fields(b) ==
    LET isSome(f) == b.opt[f].some
        nf == SelectSeq(non_required_fields(b.family), isSome)
    IN  [i \in DOMAIN nf |->
            [key |-> nf[i], res |-> to_value(FieldType(nf[i]), b.opt[nf[i]].v)]]

\* fn to_json(&self) -> serde_json::Result<Value>: the first failing to_value
\* returns early (the ? operator), else Ok(Value::Object(res))
to_json(b) ==
    LET ents == to_json_req_fields(b) \o to_json_non_req_fields(b)
        bad == {i \in DOMAIN ents : ~ents[i].res.ok}
    IN  IF bad # {}
        THEN LET i == CHOOSE j \in bad : \A k \in bad : j <= k
             IN  Err(ents[i].res.err)
        ELSE LET keys == {ents[i].key : i \in DOMAIN ents}
                 at(k) == CHOOSE i \in DOMAIN ents :
                              /\ ents[i].key = k
                              /\ \A j \in DOMAIN ents : ents[j].key = k => j <= i
             IN  Ok(JObject([k \in keys |-> ents[at(k)].res.val]))

---------------------------------------------------------------------------
(* Building a body and serializing it *)

NotCalled == [called |-> FALSE]

Calls == 1..MaxCalls

Idle ==
    [pc |-> "idle", mode |-> "-", steps |-> <<>>, json |-> NotCalled,
     sent |-> <<>>, res |-> NotCalled, outcome |-> NotCalled]

\* A body right after <Family>Request::init
InitBody ==
    /\ \E F \in Families, m \in Models :
         \E req \in ReqArgs(F) : body = init(F, m, req)
    /\ hist = <<>>
    /\ json = NotCalled
    /\ calls = [c \in Calls |-> Idle]
    /\ client = [api_key |-> ApiKey, organization |-> None]
    /\ http = <<>>
    /\ handle = NotCalled
    /\ models = NotCalled

\* body.with_<f>(x): consumes the body and returns the updated one
With(f, x) ==
    /\ Len(hist) < MaxWith
    /\ \A c \in Calls : calls[c].pc \in {"idle", "done"}
    /\ body' = with(body, f, x)
    /\ hist' = Append(hist, [f |-> f, x |-> x])
    /\ json' = NotCalled
    /\ UNCHANGED <<calls, clientvars>>

\* body.to_json()
ToJson ==
    /\ json' = to_json(body)
    /\ UNCHANGED <<body, hist, calls, clientvars>>

NextBody ==
    \/ \E f \in OptFields(body.family) : \E x \in Values(FieldType(f)) : With(f, x)
    \/ ToJson

SpecBody == InitBody /\ [][NextBody]_vars

---------------------------------------------------------------------------
(* The Response types and their derived Deserialize *)

\* The fields of each #[derive(Deserialize)] struct, in declaration order
StructFields(S) ==
    CASE S = "TextCompletionResponse" ->
            << [name |-> "choices", ty |-> "Vec<TextCompletionChoice>"],
               [name |-> "created", ty |-> "u64"],
               [name |-> "id", ty |-> "String"],
               [name |-> "model", ty |-> "String"],
               [name |-> "object", ty |-> "String"],
               [name |-> "usage", ty |-> "TextCompletionUsage"] >>
      [] S = "TextCompletionChoice" ->
            << [name |-> "finish_reason", ty |-> "String"],
               [name |-> "index", ty |-> "u64"],
               [name |-> "logprobs", ty |-> "Option<u8>"],
               [name |-> "text", ty |-> "String"] >>
      [] S = "TextCompletionUsage" ->
            << [name |-> "completion_tokens", ty |-> "u64"],
               [name |-> "prompt_tokens", ty |-> "u64"],
               [name |-> "total_tokens", ty |-> "u64"] >>
      [] S = "ChatCompletionResponse" ->
            << [name |-> "id", ty |-> "String"],
               [name |-> "object", ty |-> "String"],
               [name |-> "created", ty |-> "u64"],
               [name |-> "choices", ty |-> "Vec<ChatCompletionChoice>"],
               [name |-> "usage", ty |-> "ChatCompletionUsage"] >>
      [] S = "ChatCompletionChoice" ->
            << [name |-> "index", ty |-> "u64"],
               [name |-> "message", ty |-> "ChatMessage"],
               [name |-> "finish_reason", ty |-> "String"] >>
      [] S = "ChatMessage" ->
            << [name |-> "role", ty |-> "ChatRole"],
               [name |-> "content", ty |-> "String"] >>
      [] S = "ChatCompletionUsage" ->
            << [name |-> "prompt_tokens", ty |-> "u64"],
               [name |-> "completion_tokens", ty |-> "u64"],
               [name |-> "total_tokens", ty |-> "u64"] >>
      [] S = "EditResponse" ->
            << [name |-> "object", ty |-> "String"],
               [name |-> "created", ty |-> "u64"],
               [name |-> "choices", ty |-> "Vec<EditChoice>"],
               [name |-> "usage", ty |-> "Usage"] >>
      [] S = "EditChoice" ->
            << [name |-> "text", ty |-> "String"],
               [name |-> "index", ty |-> "u64"] >>
      [] S = "Usage" ->
            << [name |-> "completion_tokens", ty |-> "u64"],
               [name |-> "prompt_tokens", ty |-> "u64"],
               [name |-> "total_tokens", ty |-> "u64"] >>

Structs ==
    {"TextCompletionResponse", "TextCompletionChoice", "TextCompletionUsage",
     "ChatCompletionResponse", "ChatCompletionChoice", "ChatMessage",
     "ChatCompletionUsage", "EditResponse", "EditChoice", "Usage"}

\* the element type of each Vec<T> used
VecElem(ty) ==
    CASE ty = "Vec<TextCompletionChoice>" -> "TextCompletionChoice"
      [] ty = "Vec<ChatCompletionChoice>" -> "ChatCompletionChoice"
      [] ty = "Vec<EditChoice>" -> "EditChoice"

VecTypes == {"Vec<TextCompletionChoice>", "Vec<ChatCompletionChoice>", "Vec<EditChoice>"}

\* <Family>Response
Response(F) ==
    CASE F = "TextCompletion" -> "TextCompletionResponse"
      [] F = "ChatCompletion" -> "ChatCompletionResponse"
      [] F = "Edit" -> "EditResponse"

MissingField(f) == [msg |-> "missing field", field |-> f]
InvalidType(ty) == [msg |-> "invalid type", field |-> ty]
UnknownVariant(ty) == [msg |-> "unknown variant", field |-> ty]

\* the first error of a sequence of Results, or none
FirstErr(rs) ==
    LET bad == {i \in DOMAIN rs : ~rs[i].ok}
    IN  IF bad = {} THEN None
        ELSE Some(rs[CHOOSE i \in bad : \A j \in bad : i <= j].err)

RECURSIVE Deserialize(_, _)
\* T::deserialize(v) as serde derives it: a value of the wrong JSON type is an
\* error; in a struct a present field is deserialized at its type, an absent
\* Option field is None, any other absent field is an error naming it; keys
\* that are no field of the struct are ignored.
Deserialize(ty, v) ==
    CASE ty = "u64" ->
            IF v.t = "number" /\ "n" \in DOMAIN v /\ v.n >= 0
            THEN Ok(v.n) ELSE Err(InvalidType(ty))
      [] ty = "String" ->
            IF v.t = "string" THEN Ok(v.s) ELSE Err(InvalidType(ty))
      [] ty = "Option<u8>" ->
            IF v.t = "null" THEN Ok(None)
            ELSE IF v.t = "number" /\ "n" \in DOMAIN v /\ v.n \in 0..255
                 THEN Ok(Some(v.n)) ELSE Err(InvalidType(ty))
      [] ty = "ChatRole" ->
            IF v.t # "string" THEN Err(InvalidType(ty))
            ELSE IF \E r \in ChatRoles : ChatRoleTag(r) = v.s
                 THEN Ok(CHOOSE r \in ChatRoles : ChatRoleTag(r) = v.s)
                 ELSE Err(UnknownVariant(ty))
      [] ty \in VecTypes ->
            IF v.t # "array" THEN Err(InvalidType(ty))
            ELSE LET rs == [i \in DOMAIN v.a |-> Deserialize(VecElem(ty), v.a[i])]
                     e == FirstErr(rs)
                 IN  IF e.some THEN Err(e.v)
                     ELSE Ok([i \in DOMAIN rs |-> rs[i].val])
      [] ty \in Structs ->
            IF v.t # "object" THEN Err(InvalidType(ty))
            ELSE LET fs == StructFields(ty)
                     present(i) == fs[i].name \in DOMAIN v.o
                     \* the fields the map holds are visited first
                     rs == [i \in DOMAIN fs |->
                              IF present(i) THEN Deserialize(fs[i].ty, v.o[fs[i].name])
                              ELSE Ok(None)]
                     e == FirstErr(rs)
                     \* then each field the map did not hold, in order
                     ms == [i \in DOMAIN fs |->
                              IF present(i) \/ fs[i].ty = "Option<u8>" THEN Ok(None)
                              ELSE Err(MissingField(fs[i].name))]
                     m == FirstErr(ms)
                     at(n) == CHOOSE i \in DOMAIN fs : fs[i].name = n
                 IN  IF e.some THEN Err(e.v)
                     ELSE IF m.some THEN Err(m.v)
                     ELSE Ok([n \in {fs[i].name : i \in DOMAIN fs} |->
                                IF present(at(n)) THEN rs[at(n)].val ELSE None])

---------------------------------------------------------------------------
(* The server's replies *)

UsagePayload ==
    JObject([completion_tokens |-> JInt(1), prompt_tokens |-> JInt(2),
             total_tokens |-> JInt(3)])

\* A payload of the documented shape of each family's Response
ValidPayload(F) ==
    CASE F = "TextCompletion" ->
            JObject([choices |-> JArray(<<JObject([finish_reason |-> JString("stop"),
                                                   index |-> JInt(0),
                                                   logprobs |-> JNull,
                                                   text |-> JString("Hi")])>>),
                     created |-> JInt(1677),
                     id |-> JString("cmpl-1"),
                     model |-> JString("text-davinci-003"),
                     object |-> JString("text_completion"),
                     usage |-> UsagePayload])
      [] F = "ChatCompletion" ->
            JObject([id |-> JString("chatcmpl-1"),
                     object |-> JString("chat.completion"),
                     created |-> JInt(1677),
                     choices |-> JArray(<<JObject([index |-> JInt(0),
                                                   message |-> JObject([role |-> JString("assistant"),
                                                                        content |-> JString("Hi")]),
                                                   finish_reason |-> JString("stop")])>>),
                     usage |-> UsagePayload])
      [] F = "Edit" ->
            JObject([object |-> JString("edit"),
                     created |-> JInt(1677),
                     choices |-> JArray(<<JObject([text |-> JString("Hi"),
                                                   index |-> JInt(0)])>>),
                     usage |-> UsagePayload])

\* payload p without key k
Without(p, k) == JObject([x \in DOMAIN p.o \ {k} |-> p.o[x]])
\* payload p with key k holding x
Having(p, k, x) == JObject([y \in DOMAIN p.o \cup {k} |-> IF y = k THEN x ELSE p.o[y]])

\* the keys the model drops from a valid payload
DroppedKeys == {"choices", "usage"}

\* a second choice of each family's shape
SecondChoice(F) ==
    CASE F = "TextCompletion" ->
            JObject([finish_reason |-> JString("length"), index |-> JInt(1),
                     logprobs |-> JInt(5), text |-> JString("Ho")])
      [] F = "ChatCompletion" ->
            JObject([index |-> JInt(1),
                     message |-> JObject([role |-> JString("user"),
                                          content |-> JString("Ho")]),
                     finish_reason |-> JString("length")])
      [] F = "Edit" -> JObject([text |-> JString("Ho"), index |-> JInt(1)])

\* the valid payload with two choices
TwoChoices(F) ==
    Having(ValidPayload(F), "choices",
           JArray(ValidPayload(F).o.choices.a \o <<SecondChoice(F)>>))

\* The JSON documents a server may answer with
Payloads(F) ==
    {ValidPayload(F), TwoChoices(F)}
    \cup {Without(ValidPayload(F), k) : k \in DroppedKeys}
    \cup {Having(ValidPayload(F), "created", JString("now"))}

\* A response body: it cannot be read, or it is read and holds a JSON document
Unreadable == [readable |-> FALSE]
Readable(p) == [readable |-> TRUE, json |-> p]

\* What RequestBuilder::send returns: a reqwest::Error, or a Response
SendResults(F) ==
    {Err([kind |-> "connect"])}
    \cup {Ok(Unreadable)}
    \cup {Ok(Readable(p)) : p \in Payloads(F)}

\* (mutant of ResponseJson) the choices come out in reverse order
ResponseJson_reversed(F, r) ==
    IF ~r.readable THEN Err([kind |-> "body"])
    ELSE LET d == Deserialize(Response(F), r.json)
             rev(x) == [i \in DOMAIN x |-> x[Len(x) + 1 - i]]
         IN  IF d.ok THEN Ok([d.val EXCEPT !.choices = rev(@)])
             ELSE Err([kind |-> "decode", serde |-> d.err])

\* Response::json::<T>(): the body is read, then deserialized; either failure
\* is a reqwest::Error
ResponseJson(F, r) ==
    IF ~r.readable THEN Err([kind |-> "body"])
    ELSE LET d == Deserialize(Response(F), r.json)
         IN  IF d.ok THEN Ok(d.val) ELSE Err([kind |-> "decode", serde |-> d.err])

---------------------------------------------------------------------------
(* Errors *)

\* fn model_error() -> ModelError { ModelError::NotCompatibleWith<Family> }
model_error(F) ==
    CASE F = "TextCompletion" -> "NotCompatibleWithTextCompletion"
      [] F = "ChatCompletion" -> "NotCompatibleWithChatCompletion"
      [] F = "Edit" -> "NotCompatibleWithEdit"

\* from_err!(ReqwestError[reqwest::Error], ParseError[ParseError], ModelError[ModelError])
FromModelError(e) == [variant |-> "ModelError", source |-> [model_error |-> e]]
FromReqwestError(e) == [variant |-> "ReqwestError", source |-> e]
FromParseError(e) == [variant |-> "ParseError", source |-> e]
\* impl From<serde_json::Error> for Error
FromSerdeJsonError(e) == [variant |-> "SerializationError", source |-> e]

---------------------------------------------------------------------------
(* APIKeysAccess: the headers every request carries *)

\* the bytes of the strings the model uses as keys and organizations
Bytes(str) ==
    CASE str = "sk-test" -> <<115, 107, 45, 116, 101, 115, 116>>
      [] str = "sk-test\n" -> <<115, 107, 45, 116, 101, 115, 116, 10>>
      [] str = "org-1" -> <<111, 114, 103, 45, 49>>
      [] str = "org\t1" -> <<111, 114, 103, 9, 49>>
      [] str = "org-1\r\n" -> <<111, 114, 103, 45, 49, 13, 10>>
      [] str = "Bearer " -> <<66, 101, 97, 114, 101, 114, 32>>
      [] str = "" -> <<>>

\* str.parse::<HeaderValue>(): an error for a byte below 32 other than the
\* tab, or the byte 127
HeaderValue_from_bytes(bs) ==
    IF \A i \in DOMAIN bs : (bs[i] >= 32 /\ bs[i] # 127) \/ bs[i] = 9
    THEN Ok(bs) ELSE Err("InvalidHeaderValue")

\* (mutant of auth_header) the key is sent as it is, whatever its bytes
auth_header_unchecked(m) == [h \in {"Authorization"} |-> <<"Bearer ", m.api_key>>]

\* header_map.insert("Authorization", format!("Bearer {}", key).parse().unwrap())
auth_header(m) ==
    IF HeaderValue_from_bytes(Bytes("Bearer ") \o Bytes(m.api_key)).ok
    THEN [h \in {"Authorization"} |-> <<"Bearer ", m.api_key>>]
    ELSE Panic("Result::unwrap")

\* (mutant of org_header) the organization header is never inserted
org_header_never(m, hs) == hs

\* if let Some(org) = .. { header_map.insert("OpenAI-Organization", org.parse().unwrap()) };
\* hs is what auth_header left: the header map, or the panic
org_header(m, hs) ==
    IF IsPanic(hs) THEN hs
    ELSE IF m.org_id.some
    THEN IF HeaderValue_from_bytes(Bytes(m.org_id.v)).ok
         THEN [h \in DOMAIN hs \cup {"OpenAI-Organization"} |->
                 IF h = "OpenAI-Organization" THEN <<m.org_id.v>> ELSE hs[h]]
         ELSE Panic("Result::unwrap")
    ELSE hs

common_headers(m) == org_header(m, auth_header(m))

\* the call unwinds: it is over and has returned nothing
Unwind(call) == [call EXCEPT !.pc = "panicked"]

HttpPost(via, url, headers, payload) ==
    [method |-> "POST", client |-> via, url |-> url, headers |-> headers,
     json |-> payload]

---------------------------------------------------------------------------
(* Request::execute (async), one operator per step of the function *)

Return(call, result) == [call EXCEPT !.pc = "done", !.outcome = result]
Step(call, name, pc) == [call EXCEPT !.steps = Append(@, name), !.pc = pc]

\* (mutant of execute_check) the compatibility check is skipped
execute_check_skipped(call, b) == Step(call, "check", "to_json")

\* an identifier with its letters in lower case and surrounding whitespace cut
LowerTrimmed(id) ==
    CASE id = "GPT-4" -> "gpt-4"
      [] id = "Text-Davinci-003" -> "text-davinci-003"
      [] id = "gpt-4 " -> "gpt-4"
      [] id = " gpt-4" -> "gpt-4"
      [] id = "ada " -> "ada"
      [] id = "text-davinci-edit-001\n" -> "text-davinci-edit-001"
      [] OTHER -> id

\* (mutant of execute_check) the identifier is normalised before the lookup
execute_check_normalised(call, b) ==
    IF LowerTrimmed(b.model.id) \notin COMPATIBLE_MODELS(b.family)
    THEN Return(Step(call, "check", "done"),
                Err(FromModelError(model_error(b.family))))
    ELSE Step(call, "check", "to_json")

\* if !Self::COMPATIBLE_MODELS.contains(&self.model().id().as_str()) { return Err(..) }
execute_check(call, b) ==
    IF b.model.id \notin COMPATIBLE_MODELS(b.family)
    THEN Return(Step(call, "check", "done"),
                Err(FromModelError(model_error(b.family))))
    ELSE Step(call, "check", "to_json")

\* let json = self.to_json()?;
execute_to_json(call, b) ==
    LET j == to_json(b)
        c == [call EXCEPT !.json = j]
    IN  IF ~j.ok
        THEN Return(Step(c, "to_json", "done"), Err(FromSerdeJsonError(j.err)))
        ELSE Step(c, "to_json", "post")

\* self.model().async_client().post(Self::URL).headers(..).json(&json).send()
execute_post(call, b) ==
    LET hs == common_headers(b.model)
        rq == HttpPost("async_client", URL(b.family), hs, call.json.val)
    IN  IF IsPanic(hs) THEN Unwind(call)
        ELSE Step([call EXCEPT !.sent = Append(@, rq)], "post", "send")

\* (mutant of execute_send) a failed send goes on to parse the response
execute_send_continue(call, r) == [call EXCEPT !.res = r, !.pc = "json"]

\* (mutant of execute_send) a failed send is retried once
execute_send_retry(call, r) ==
    IF ~r.ok /\ Len(call.sent) < 2
    THEN [call EXCEPT !.sent = Append(@, @[1])]
    ELSE IF ~r.ok
         THEN Return([call EXCEPT !.res = r], Err(FromReqwestError(r.err)))
         ELSE [call EXCEPT !.res = r, !.pc = "json"]

\* .await?: send's result r comes back
execute_send(call, r) ==
    LET c == [call EXCEPT !.res = r]
    IN  IF ~r.ok
        THEN Return(c, Err(FromReqwestError(r.err)))
        ELSE [c EXCEPT !.pc = "json"]

\* Ok(res.json().await?)
execute_json(call, b) ==
    LET d == ResponseJson(b.family, call.res.val)
    IN  IF ~d.ok
        THEN Return(Step(call, "parse", "done"), Err(FromReqwestError(d.err)))
        ELSE Return(Step(call, "parse", "done"), Ok(d.val))

---------------------------------------------------------------------------
(* Request::execute_blocking, one operator per step of the function *)

\* (mutant of execute_blocking_check) the blocking variant skips the check
execute_blocking_check_skipped(call, b) == Step(call, "check", "to_json")

\* if !Self::COMPATIBLE_MODELS.contains(&self.model().id().as_str()) { return Err(..) }
execute_blocking_check(call, b) ==
    IF b.model.id \notin COMPATIBLE_MODELS(b.family)
    THEN Return(Step(call, "check", "done"),
                Err(FromModelError(model_error(b.family))))
    ELSE Step(call, "check", "to_json")

execute_blocking_to_json(call, b) ==
    LET j == to_json(b)
        c == [call EXCEPT !.json = j]
    IN  IF ~j.ok
        THEN Return(Step(c, "to_json", "done"), Err(FromSerdeJsonError(j.err)))
        ELSE Step(c, "to_json", "post")

\* self.model().blocking_client().post(Self::URL).headers(..).json(&json).send()
execute_blocking_post(call, b) ==
    LET hs == common_headers(b.model)
        rq == HttpPost("blocking_client", URL(b.family), hs, call.json.val)
    IN  IF IsPanic(hs) THEN Unwind(call)
        ELSE Step([call EXCEPT !.sent = Append(@, rq)], "post", "send")

\* .send()?: send's result r comes back
execute_blocking_send(call, r) ==
    LET c == [call EXCEPT !.res = r]
    IN  IF ~r.ok
        THEN Return(c, Err(FromReqwestError(r.err)))
        ELSE [c EXCEPT !.pc = "json"]

\* Ok(res.json()?)
execute_blocking_json(call, b) ==
    LET d == ResponseJson(b.family, call.res.val)
    IN  IF ~d.ok
        THEN Return(Step(call, "parse", "done"), Err(FromReqwestError(d.err)))
        ELSE Return(Step(call, "parse", "done"), Ok(d.val))

---------------------------------------------------------------------------
(* The calls of execute / execute_blocking on a body *)

Modes == {"async", "blocking"}

RECURSIVE ApplyHist(_, _)
\* the body after the with_<field> calls of h, in order
ApplyHist(b, h) ==
    IF h = <<>> THEN b
    ELSE ApplyHist(with(b, Head(h).f, Head(h).x), Tail(h))

\* A body as built by init and at most one with_temperature
Init ==
    /\ \E F \in Families, m \in Models :
         \E req \in ReqArgs(F) :
           \E h \in {<<>>} \cup {<<[f |-> "temperature", x |-> x]>> : x \in FloatVals} :
             /\ hist = h
             /\ body = ApplyHist(init(F, m, req), h)
    /\ json = NotCalled
    /\ calls = [c \in Calls |-> Idle]
    /\ client = [api_key |-> ApiKey, organization |-> None]
    /\ http = <<>>
    /\ handle = NotCalled
    /\ models = NotCalled

\* The call c is made in mode m and runs up to the compatibility check
Check(c, m) ==
    /\ calls[c].pc = "idle"
    /\ LET call == [calls[c] EXCEPT !.mode = m]
       IN  calls' = [calls EXCEPT ![c] =
                        IF m = "blocking" THEN execute_blocking_check(call, body)
                        ELSE execute_check(call, body)]
    /\ UNCHANGED <<body, hist, json, clientvars>>

\* (mutant of Serialize) to_json takes the optional fields out of the body
Serialize_take(c) ==
    /\ calls[c].pc = "to_json"
    /\ calls' = [calls EXCEPT ![c] =
                    IF @.mode = "blocking" THEN execute_blocking_to_json(@, body)
                    ELSE execute_to_json(@, body)]
    /\ body' = [body EXCEPT !.opt = [f \in DOMAIN @ |-> None]]
    /\ UNCHANGED <<hist, json, clientvars>>

Serialize(c) ==
    /\ calls[c].pc = "to_json"
    /\ calls' = [calls EXCEPT ![c] =
                    IF @.mode = "blocking" THEN execute_blocking_to_json(@, body)
                    ELSE execute_to_json(@, body)]
    /\ UNCHANGED <<body, hist, json, clientvars>>

Post(c) ==
    /\ calls[c].pc = "post"
    /\ calls' = [calls EXCEPT ![c] =
                    IF @.mode = "blocking" THEN execute_blocking_post(@, body)
                    ELSE execute_post(@, body)]
    /\ UNCHANGED <<body, hist, json, clientvars>>

\* The transport answers the request of call c with r
SendReturns(c, r) ==
    /\ calls[c].pc = "send"
    /\ calls' = [calls EXCEPT ![c] =
                    IF @.mode = "blocking" THEN execute_blocking_send(@, r)
                    ELSE execute_send(@, r)]
    /\ UNCHANGED <<body, hist, json, clientvars>>

\* (mutant of Parse) the calls share one response slot: the response parsed
\* is the one of the first call that has one
Parse_shared(c) ==
    /\ calls[c].pc = "json"
    /\ LET has(d) == calls[d].res # NotCalled /\ calls[d].res.ok
           d == CHOOSE x \in Calls : has(x) /\ \A y \in Calls : has(y) => x <= y
           call == [calls[c] EXCEPT !.res = calls[d].res]
           ret == IF call.mode = "blocking" THEN execute_blocking_json(call, body)
                  ELSE execute_json(call, body)
       IN  calls' = [calls EXCEPT ![c] = [ret EXCEPT !.res = calls[c].res]]
    /\ UNCHANGED <<body, hist, json, clientvars>>

Parse(c) ==
    /\ calls[c].pc = "json"
    /\ calls' = [calls EXCEPT ![c] =
                    IF @.mode = "blocking" THEN execute_blocking_json(@, body)
                    ELSE execute_json(@, body)]
    /\ UNCHANGED <<body, hist, json, clientvars>>

Next ==
    \/ \E c \in Calls, m \in Modes : Check(c, m)
    \/ \E c \in Calls : Serialize(c)
    \/ \E c \in Calls : Post(c)
    \/ \E c \in Calls : \E r \in SendResults(body.family) : SendReturns(c, r)
    \/ \E c \in Calls : Parse(c)

Spec == Init /\ [][Next]_vars

---------------------------------------------------------------------------
(* serde_json::Value accessors *)

\* Value::get(&str): the member of an object, None for any other value
get(v, k) == IF v.t = "object" /\ k \in DOMAIN v.o THEN Some(v.o[k]) ELSE None

as_u64(v) == IF v.t = "number" /\ "n" \in DOMAIN v /\ v.n >= 0 THEN Some(v.n) ELSE None
as_str(v) == IF v.t = "string" THEN Some(v.s) ELSE None
as_bool(v) == IF v.t = "bool" THEN Some(v.b) ELSE None
as_array(v) == IF v.t = "array" THEN Some(v.a) ELSE None

\* json.get(name) followed by .and_then(|v| v.as_<kind>()) or by .cloned()
GetAs(v, name, kind) ==
    LET g == get(v, name)
    IN  IF ~g.some THEN None
        ELSE CASE kind = "u64" -> as_u64(g.v)
               [] kind = "str" -> as_str(g.v)
               [] kind = "bool" -> as_bool(g.v)
               [] kind = "array" -> as_array(g.v)
               [] kind = "cloned" -> g

\* ParseError::FieldNotFound(name)
FieldNotFound(name) == [kind |-> "FieldNotFound", field |-> name]

\* Option::ok_or
ok_or(o, e) == IF o.some THEN Ok(o.v) ELSE Err(e)

---------------------------------------------------------------------------
(* ModelPermission::parse and Model::new_parse_json *)

\* the let statements of ModelPermission::parse, in order
PermissionFields ==
    << [name |-> "allow_create_engine", kind |-> "bool"],
       [name |-> "allow_fine_tuning", kind |-> "bool"],
       [name |-> "allow_logprobs", kind |-> "bool"],
       [name |-> "allow_sampling", kind |-> "bool"],
       [name |-> "allow_search_indices", kind |-> "bool"],
       [name |-> "allow_view", kind |-> "bool"],
       [name |-> "created", kind |-> "u64"],
       [name |-> "group", kind |-> "cloned"],
       [name |-> "id", kind |-> "str"],
       [name |-> "is_blocking", kind |-> "bool"],
       [name |-> "organization", kind |-> "str"] >>

\* the let statements of Model::new_parse_json, in order
ModelFields ==
    << [name |-> "created", kind |-> "u64"],
       [name |-> "id", kind |-> "str"],
       [name |-> "owned_by", kind |-> "str"],
       [name |-> "parent", kind |-> "cloned"],
       [name |-> "permission", kind |-> "array"] >>

\* each let statement's Result, in order; the first Err is what ? returns
LetResults(v, fields) ==
    [i \in DOMAIN fields |->
        ok_or(GetAs(v, fields[i].name, fields[i].kind),
              FieldNotFound(fields[i].name))]

\* the struct built from the let statements' values
StructOf(fields, rs) ==
    LET at(n) == CHOOSE i \in DOMAIN fields : fields[i].name = n
    IN  [n \in {fields[i].name : i \in DOMAIN fields} |-> rs[at(n)].val]

\* (mutant of parse) a flag the JSON does not hold as a boolean is taken as false
parse_flags_default(pjson) ==
    LET rs == [i \in DOMAIN PermissionFields |->
                  LET r == LetResults(pjson, PermissionFields)[i]
                  IN  IF ~r.ok /\ PermissionFields[i].kind = "bool"
                      THEN Ok(FALSE) ELSE r]
        e == FirstErr(rs)
    IN  IF e.some THEN Err(FromParseError(e.v))
        ELSE Ok(StructOf(PermissionFields, rs))

\* pub fn parse(json: &serde_json::Value) -> error::Result<Self>
parse(pjson) ==
    LET rs == LetResults(pjson, PermissionFields)
        e == FirstErr(rs)
    IN  IF e.some THEN Err(FromParseError(e.v))
        ELSE Ok(StructOf(PermissionFields, rs))

\* (mutant of new_parse_json) the permission array is parsed before the
\* other fields are read
new_parse_json_permission_first(api_key, org_id, mjson) ==
    LET rs == LetResults(mjson, ModelFields)
        e == FirstErr(rs)
        arr == IF rs[5].ok THEN rs[5].val ELSE <<>>
        ps == [i \in DOMAIN arr |-> parse(arr[i])]
        pe == FirstErr(ps)
    IN  IF ~rs[5].ok THEN Err(FromParseError(rs[5].err))
        ELSE IF pe.some THEN Err(pe.v)
        ELSE IF e.some THEN Err(FromParseError(e.v))
        ELSE Ok([api_key |-> api_key,
                 org_id |-> org_id,
                 created |-> rs[1].val,
                 id |-> rs[2].val,
                 owned_by |-> rs[3].val,
                 parent |-> rs[4].val,
                 permission |-> [i \in DOMAIN ps |-> ps[i].val]])

\* pub fn new_parse_json(api_key, org_id, .., json) -> error::Result<Self>
new_parse_json(api_key, org_id, mjson) ==
    LET rs == LetResults(mjson, ModelFields)
        e == FirstErr(rs)
    IN  IF e.some THEN Err(FromParseError(e.v))
        ELSE LET arr == rs[5].val
                 \* arr.iter().map(ModelPermission::parse).collect::<Result<Vec<_>>>()
                 ps == [i \in DOMAIN arr |-> parse(arr[i])]
                 pe == FirstErr(ps)
             IN  IF pe.some THEN Err(pe.v)
                 ELSE Ok([api_key |-> api_key,
                          org_id |-> org_id,
                          created |-> rs[1].val,
                          id |-> rs[2].val,
                          owned_by |-> rs[3].val,
                          parent |-> rs[4].val,
                          permission |-> [i \in DOMAIN ps |-> ps[i].val]])

---------------------------------------------------------------------------
(* The Client *)

BASE_URL == "https://api.openai.com/v1"
MODELS_LIST_URL == BASE_URL \o "/models"
TEXT_COMPLETION_URL == BASE_URL \o "/completions"
CHAT_COMPLETION_URL == BASE_URL \o "/chat/completions"

\* Client::new(api_key)
new(api_key) == [api_key |-> api_key, organization |-> None]
\* Client::organization(mut self, organization) -> Self
organization(c, org) == [c EXCEPT !.organization = Some(org)]

\* impl APIKeysAccess for Client: get_api_key, get_org_id
ClientKeys(c) == [api_key |-> c.api_key, org_id |-> c.organization]

HttpGet(via, url, headers) ==
    [method |-> "GET", client |-> via, url |-> url, headers |-> headers]

\* (mutant of models_from_response_json) an element that fails to parse is
\* left out of the list
models_from_response_json_skip_invalid(c, ljson) ==
    LET data == ok_or(GetAs(ljson, "data", "array"), FieldNotFound("data"))
    IN  IF ~data.ok THEN Err(FromParseError(data.err))
        ELSE LET ms == [i \in DOMAIN data.val |->
                          new_parse_json(c.api_key, c.organization, data.val[i])]
                 good(m) == m.ok
                 gs == SelectSeq(ms, good)
             IN  Ok([i \in DOMAIN gs |-> gs[i].val])

\* fn models_from_response_json(&self, json) -> error::Result<Vec<Model>>
models_from_response_json(c, ljson) ==
    LET data == ok_or(GetAs(ljson, "data", "array"), FieldNotFound("data"))
    IN  IF ~data.ok THEN Err(FromParseError(data.err))
        ELSE LET ms == [i \in DOMAIN data.val |->
                          new_parse_json(c.api_key, c.organization, data.val[i])]
                 e == FirstErr(ms)
             IN  IF e.some THEN Err(e.v)
                 ELSE Ok([i \in DOMAIN ms |-> ms[i].val])

\* the GET list_models issues
list_models_get(c) ==
    HttpGet("async_client", MODELS_LIST_URL, common_headers(ClientKeys(c)))

\* pub async fn list_models(&self) -> error::Result<Vec<Model>>, r being what
\* send() returns
list_models(c, r) ==
    IF IsPanic(common_headers(ClientKeys(c))) THEN common_headers(ClientKeys(c))
    ELSE IF ~r.ok THEN Err(FromReqwestError(r.err))
    ELSE IF ~r.val.readable THEN Err(FromReqwestError([kind |-> "body"]))
    ELSE models_from_response_json(c, r.val.json)

list_models_blocking_get(c) ==
    HttpGet("blocking_client", MODELS_LIST_URL, common_headers(ClientKeys(c)))

\* pub fn list_models_blocking(&self) -> error::Result<Vec<Model>>
list_models_blocking(c, r) ==
    IF IsPanic(common_headers(ClientKeys(c))) THEN common_headers(ClientKeys(c))
    ELSE IF ~r.ok THEN Err(FromReqwestError(r.err))
    ELSE IF ~r.val.readable THEN Err(FromReqwestError([kind |-> "body"]))
    ELSE models_from_response_json(c, r.val.json)

\* the GET retrieve_model_info issues for model_id
retrieve_model_info_get(c, model_id) ==
    HttpGet("async_client", MODELS_LIST_URL \o "/" \o model_id,
            common_headers(ClientKeys(c)))

\* pub async fn retrieve_model_info(&self, model_id) -> error::Result<Model>,
\* r being what send() returns
retrieve_model_info(c, model_id, r) ==
    IF IsPanic(common_headers(ClientKeys(c))) THEN common_headers(ClientKeys(c))
    ELSE IF ~r.ok THEN Err(FromReqwestError(r.err))
    ELSE IF ~r.val.readable THEN Err(FromReqwestError([kind |-> "body"]))
    ELSE new_parse_json(c.api_key, c.organization, r.val.json)

retrieve_model_info_blocking_get(c, model_id) ==
    HttpGet("blocking_client", MODELS_LIST_URL \o "/" \o model_id,
            common_headers(ClientKeys(c)))

\* pub fn retrieve_model_info_blocking(&self, model_id) -> error::Result<Model>
retrieve_model_info_blocking(c, model_id, r) ==
    IF IsPanic(common_headers(ClientKeys(c))) THEN common_headers(ClientKeys(c))
    ELSE IF ~r.ok THEN Err(FromReqwestError(r.err))
    ELSE IF ~r.val.readable THEN Err(FromReqwestError([kind |-> "body"]))
    ELSE new_parse_json(c.api_key, c.organization, r.val.json)

---------------------------------------------------------------------------
(* What the server answers to GET /models/{id} *)

PermissionJson ==
    JObject([allow_create_engine |-> JBool(FALSE),
             allow_fine_tuning |-> JBool(FALSE),
             allow_logprobs |-> JBool(TRUE),
             allow_sampling |-> JBool(TRUE),
             allow_search_indices |-> JBool(FALSE),
             allow_view |-> JBool(TRUE),
             created |-> JInt(1679),
             group |-> JNull,
             id |-> JString("modelperm-1"),
             is_blocking |-> JBool(FALSE),
             object |-> JString("model_permission"),
             organization |-> JString("*")])

ModelJson(id) ==
    JObject([created |-> JInt(1677),
             id |-> JString(id),
             object |-> JString("model"),
             owned_by |-> JString("openai"),
             parent |-> JNull,
             permission |-> JArray(<<PermissionJson>>),
             root |-> JString(id)])

\* identifiers that differ from a listed one in case, by a prefix or suffix,
\* or by surrounding whitespace, and one of no family
NearMissIds ==
    {"GPT-4", "Text-Davinci-003", "gpt-4 ", " gpt-4", "gpt", "gpt-4-0314-x",
     "x-davinci", "ada ", "text-davinci-edit-001\n", "whisper-1"}

ListedIds == UNION {COMPATIBLE_MODELS(F) : F \in Families}

\* JSON values of another type than a field of that kind expects
Mistyped(kind) ==
    CASE kind = "u64" -> {JString("x"), JInt(-1), JFloat("1.5"), JNull}
      [] kind = "str" -> {JInt(1), JNull}
      [] kind = "bool" -> {JString("true"), JInt(1), JNull}
      [] kind = "array" -> {JString("x"), JNull, JObject([id |-> JString("x")])}
      [] kind = "cloned" -> {}

\* p with one field dropped or mistyped
Damaged(p, fields) ==
    {Without(p, fields[i].name) : i \in DOMAIN fields}
    \cup UNION {{Having(p, fields[i].name, w) : w \in Mistyped(fields[i].kind)} :
                    i \in DOMAIN fields}

\* The JSON documents the server may answer GET /models/{id} with
ModelReplies ==
    {ModelJson(id) : id \in ListedIds \cup NearMissIds}
    \cup Damaged(ModelJson("gpt-4"), ModelFields)
    \* two fields dropped
    \cup {Without(Without(ModelJson("gpt-4"), ModelFields[i].name), ModelFields[j].name) :
             i, j \in DOMAIN ModelFields}
    \* a permission damaged, alone or after a sound one
    \cup {Having(ModelJson("gpt-4"), "permission", JArray(<<q>>)) :
             q \in Damaged(PermissionJson, PermissionFields)}
    \cup {Having(ModelJson("gpt-4"), "permission", JArray(<<PermissionJson, q>>)) :
             q \in Damaged(PermissionJson, PermissionFields)}
    \* a permission with two fields dropped
    \cup {Having(ModelJson("gpt-4"), "permission",
                 JArray(<<Without(Without(PermissionJson, PermissionFields[i].name),
                                  PermissionFields[j].name)>>)) :
             i, j \in DOMAIN PermissionFields}
    \* two damaged permissions; a damaged permission in a damaged Model
    \cup {Having(ModelJson("gpt-4"), "permission",
                 JArray(<<Without(PermissionJson, "id"),
                          Without(PermissionJson, "allow_view")>>)),
          Without(Having(ModelJson("gpt-4"), "permission",
                         JArray(<<Without(PermissionJson, "id")>>)), "owned_by")}
    \* no permission; not an object
    \cup {Having(ModelJson("gpt-4"), "permission", JArray(<<>>)),
          JArray(<<>>), JString("gpt-4"), JNull}

GetResults ==
    {Err([kind |-> "connect"]), Ok(Unreadable)}
    \cup {Ok(Readable(p)) : p \in ModelReplies}

\* The JSON documents the server may answer GET /models with
ListReplies ==
    {JObject([object |-> JString("list"), data |-> JArray(d)]) :
        d \in {<<>>, <<ModelJson("gpt-4"), ModelJson("davinci")>>,
               <<ModelJson("gpt-4"), Without(ModelJson("davinci"), "owned_by")>>,
               <<Without(ModelJson("gpt-4"), "id"), ModelJson("davinci")>>,
               <<ModelJson("ada"), Without(ModelJson("gpt-4"), "id"),
                 Without(ModelJson("davinci"), "created")>>,
               <<ModelJson("davinci"), ModelJson("gpt-4"), ModelJson("ada")>>}}
    \cup {JObject([object |-> JString("list")]),
          JObject([object |-> JString("list"), data |-> JString("x")]),
          JObject([object |-> JString("list"), data |-> JNull]),
          JArray(<<ModelJson("gpt-4")>>)}

ListResults ==
    {Err([kind |-> "connect"]), Ok(Unreadable)}
    \cup {Ok(Readable(p)) : p \in ListReplies}

\* the ids retrieve_model_info is asked for
RequestedIds == {"gpt-4", "text-davinci-003"}
OrgNames == {"org-1"}

---------------------------------------------------------------------------
(* A Client resolving a Model handle, and a request made through it *)

\* no request body has been built
NoBody == [family |-> "none"]

\* the next statement of execute / execute_blocking for a call that is not
\* waiting for the transport
Advance(call, b) ==
    CASE call.pc = "idle" ->
            IF call.mode = "blocking" THEN execute_blocking_check(call, b)
            ELSE execute_check(call, b)
      [] call.pc = "to_json" ->
            IF call.mode = "blocking" THEN execute_blocking_to_json(call, b)
            ELSE execute_to_json(call, b)
      [] call.pc = "post" ->
            IF call.mode = "blocking" THEN execute_blocking_post(call, b)
            ELSE execute_post(call, b)
      [] OTHER -> call

\* execute / execute_blocking in mode m on body b, from the call to the
\* point where it has returned or its request is on the wire
RunToSend(m, b) ==
    Advance(Advance(Advance([Idle EXCEPT !.mode = m], b), b), b)

\* Client::new(key), with or without .organization(org)
InitClient ==
    /\ client \in {new(ApiKey)} \cup {organization(new(ApiKey), o) : o \in OrgNames}
    /\ http = <<>>
    /\ handle = NotCalled
    /\ models = NotCalled
    /\ body = NoBody
    /\ hist = <<>>
    /\ json = NotCalled
    /\ calls = [c \in Calls |-> Idle]

\* client.retrieve_model_info(id) or retrieve_model_info_blocking(id), the
\* transport answering r
RetrieveModelInfo(m, id, r) ==
    /\ handle = NotCalled
    /\ http' = IF IsPanic(common_headers(ClientKeys(client))) THEN http
               ELSE Append(http,
                      [req |-> IF m = "blocking"
                               THEN retrieve_model_info_blocking_get(client, id)
                               ELSE retrieve_model_info_get(client, id),
                       res |-> r])
    /\ handle' = IF m = "blocking" THEN retrieve_model_info_blocking(client, id, r)
                 ELSE retrieve_model_info(client, id, r)
    /\ UNCHANGED <<body, hist, json, calls, client, models>>

\* client.list_models() or list_models_blocking(), the transport answering r
ListModels(m, r) ==
    /\ models = NotCalled
    /\ http' = IF IsPanic(common_headers(ClientKeys(client))) THEN http
               ELSE Append(http,
                      [req |-> IF m = "blocking" THEN list_models_blocking_get(client)
                               ELSE list_models_get(client),
                       res |-> r])
    /\ models' = IF m = "blocking" THEN list_models_blocking(client, r)
                 ELSE list_models(client, r)
    /\ UNCHANGED <<body, hist, json, calls, client, handle>>

\* <Family>Request::init(&model, ..) on the resolved handle
Build(F, req) ==
    /\ handle # NotCalled
    /\ ~IsPanic(handle)
    /\ handle.ok
    /\ body = NoBody
    /\ body' = init(F, handle.val, req)
    /\ UNCHANGED <<hist, json, calls, clientvars>>

\* execute or execute_blocking on the body built, as call 1, up to its request
Execute(m) ==
    /\ body # NoBody
    /\ \/ Check(1, m)
       \/ Serialize(1)
       \/ Post(1)

NextClient ==
    \/ \E m \in Modes, id \in RequestedIds, r \in GetResults : RetrieveModelInfo(m, id, r)
    \/ \E m \in Modes, r \in ListResults : ListModels(m, r)
    \/ \E F \in Families : \E req \in ReqArgs(F) : Build(F, req)
    \/ \E m \in Modes : Execute(m)

SpecClient == InitClient /\ [][NextClient]_vars

---------------------------------------------------------------------------
(* CompletionRequestBodyBuilder *)

COMPLETION_URL == BASE_URL \o "/completions"

\* the Option fields of the struct, in declaration order, each with its type
BuilderFields ==
    << [name |-> "prompt", ty |-> "Vec<String>"],
       [name |-> "suffix", ty |-> "String"],
       [name |-> "max_tokens", ty |-> "u64"],
       [name |-> "temperature", ty |-> "f64"],
       [name |-> "top_p", ty |-> "f64"],
       [name |-> "n", ty |-> "NonZeroU64"],
       [name |-> "stream", ty |-> "bool"],
       [name |-> "logprobs", ty |-> "u8"],
       [name |-> "echo", ty |-> "bool"],
       [name |-> "stop", ty |-> "Vec<String>"],
       [name |-> "presence_penalty", ty |-> "f64"],
       [name |-> "frequency_penalty", ty |-> "f64"],
       [name |-> "best_of", ty |-> "u64"],
       [name |-> "logit_bias", ty |-> "BTreeMap<String,i64>"],
       [name |-> "user", ty |-> "String"] >>

BuilderFieldNames == {BuilderFields[i].name : i \in DOMAIN BuilderFields}
BuilderFieldType(f) == (CHOOSE d \in Range(BuilderFields) : d.name = f).ty

\* the tag of a body that is a CompletionRequestBodyBuilder
Builder == "CompletionRequestBodyBuilder"

\* pub fn new(model: impl AsRef<str>) -> Self
CompletionRequestBodyBuilder_new(model) ==
    [family |-> Builder,
     model |-> model,
     opt |-> [f \in BuilderFieldNames |-> None]]

\* pub fn prompts(mut self, prompts) -> Self
prompts(b, ps) == [b EXCEPT !.opt.prompt = Some(ps)]

\* (mutant of add_prompts) the prompts given replace the ones already set
add_prompts_replace(b, ps) == prompts(b, ps)

\* pub fn add_prompts(mut self, prompts) -> Self
add_prompts(b, ps) ==
    IF ~b.opt.prompt.some THEN prompts(b, ps)
    ELSE [b EXCEPT !.opt.prompt = Some(@.v \o ps)]

\* pub fn add_prompt(mut self, prompt) -> Self
add_prompt(b, p) ==
    IF ~b.opt.prompt.some THEN prompts(b, <<p>>)
    ELSE [b EXCEPT !.opt.prompt = Some(Append(@.v, p))]

\* pub fn stops(mut self, stop) -> Self
stops(b, ss) == [b EXCEPT !.opt.stop = Some(ss)]

\* pub fn add_stops(mut self, stop) -> Self
add_stops(b, ss) ==
    IF ~b.opt.stop.some THEN stops(b, ss)
    ELSE [b EXCEPT !.opt.stop = Some(@.v \o ss)]

\* pub fn add_stop(mut self, stop) -> Self
add_stop(b, st) ==
    IF ~b.opt.stop.some THEN stops(b, <<st>>)
    ELSE [b EXCEPT !.opt.stop = Some(Append(@.v, st))]

\* Iterator::collect::<BTreeMap<String, i64>>() of (key, value) pairs: a key
\* given more than once keeps the value of its last pair
collect_btree_map(pairs) ==
    LET keys == {pairs[i][1] : i \in DOMAIN pairs}
        last(k) == CHOOSE i \in DOMAIN pairs :
                      /\ pairs[i][1] = k
                      /\ \A j \in DOMAIN pairs : pairs[j][1] = k => j <= i
    IN  [k \in keys |-> pairs[last(k)][2]]

\* pub fn logit_bias(mut self, logit_bias: impl IntoIterator<Item = (String, i64)>) -> Self
logit_bias(b, pairs) == [b EXCEPT !.opt.logit_bias = Some(collect_btree_map(pairs))]

\* the setters of one value: suffix, max_tokens, temperature, top_p, n, stream,
\* logprobs, echo, presence_penalty, frequency_penalty, best_of, user
PlainSetters == BuilderFieldNames \ {"prompt", "stop", "logit_bias"}

\* (mutant of setter) the builder is made anew before the field is set
setter_reset(b, f, x) ==
    [CompletionRequestBodyBuilder_new(b.model) EXCEPT !.opt[f] = Some(x)]

\* pub fn <f>(mut self, <f>: T) -> Self { self.<f> = Some(<f>); self }
setter(b, f, x) == [b EXCEPT !.opt[f] = Some(x)]

\* the methods of the builder that return the builder
BuilderMethods ==
    PlainSetters \cup {"prompts", "add_prompt", "add_prompts", "stops",
                       "add_stop", "add_stops", "logit_bias"}

\* the builder b after method m was called on it with argument x
invoke(b, m, x) ==
    CASE m = "prompts" -> prompts(b, x)
      [] m = "add_prompt" -> add_prompt(b, x)
      [] m = "add_prompts" -> add_prompts(b, x)
      [] m = "stops" -> stops(b, x)
      [] m = "add_stop" -> add_stop(b, x)
      [] m = "add_stops" -> add_stops(b, x)
      [] m = "logit_bias" -> logit_bias(b, x)
      [] OTHER -> setter(b, m, x)

\* the arguments the model gives each method
BuilderArgs(m) ==
    CASE m \in {"prompts", "add_prompts", "stops", "add_stops"} ->
            {<<>>} \cup Values("Vec<String>")
      [] m \in {"add_prompt", "add_stop"} -> StringVals
      [] m = "logit_bias" ->
            {<< <<"50256", -100>> >>, << <<"11", 1>>, <<"50256", 1>> >>,
             << <<"11", 1>>, <<"11", 2>> >>, << >>}
      [] OTHER -> Values(BuilderFieldType(m))

\* what to_json hands back when it does not panic
Returned(v) == [returned |-> v]

\* the insert of one field that is Some in CompletionRequestBodyBuilder::to_json;
\* Number::from_f64(x).unwrap() panics for a value that is not finite
BuilderValue(ty, x) ==
    CASE ty = "String" -> Ok(JString(x))
      [] ty = "Vec<String>" -> Ok(JArray([i \in DOMAIN x |-> JString(x[i])]))
      [] ty \in {"u64", "u8", "NonZeroU64"} -> Ok(JInt(x))
      [] ty = "bool" -> Ok(JBool(x))
      [] ty = "f64" -> IF IsFinite(x) THEN Ok(JFloat(x)) ELSE Err("Option::unwrap")
      [] ty = "BTreeMap<String,i64>" -> Ok(JObject([k \in DOMAIN x |-> JInt(x[k])]))

\* (mutant of CompletionRequestBodyBuilder_to_json) a list that is empty is
\* left out
CompletionRequestBodyBuilder_to_json_skip_empty(b) ==
    LET set == {f \in BuilderFieldNames :
                   /\ b.opt[f].some
                   /\ ~(BuilderFieldType(f) = "Vec<String>" /\ b.opt[f].v = <<>>)}
        val(f) == BuilderValue(BuilderFieldType(f), b.opt[f].v)
    IN  IF \E f \in set : ~val(f).ok THEN Panic("Option::unwrap")
        ELSE Returned(JObject([k \in {"model"} \cup set |->
                                 IF k = "model" THEN JString(b.model)
                                 ELSE val(k).val]))

\* pub fn to_json(self) -> serde_json::Value
CompletionRequestBodyBuilder_to_json(b) ==
    LET set == {f \in BuilderFieldNames : b.opt[f].some}
        val(f) == BuilderValue(BuilderFieldType(f), b.opt[f].v)
    IN  IF \E f \in set : ~val(f).ok THEN Panic("Option::unwrap")
        ELSE Returned(JObject([k \in {"model"} \cup set |->
                                 IF k = "model" THEN JString(b.model)
                                 ELSE val(k).val]))

\* CompletionRequestBodyBuilder::new(model)
InitBuilder ==
    /\ body = CompletionRequestBodyBuilder_new("text-davinci-003")
    /\ hist = <<>>
    /\ json = NotCalled
    /\ calls = [c \in Calls |-> Idle]
    /\ client = [api_key |-> ApiKey, organization |-> None]
    /\ http = <<>>
    /\ handle = NotCalled
    /\ models = NotCalled

\* builder.<m>(x): consumes the builder and returns the updated one
BuilderCall(m, x) ==
    /\ body.family = Builder
    /\ json = NotCalled
    /\ Len(hist) < MaxWith
    /\ body' = invoke(body, m, x)
    /\ hist' = Append(hist, [f |-> m, x |-> x])
    /\ UNCHANGED <<json, calls, clientvars>>

\* builder.to_json(): consumes the builder
BuilderToJson ==
    /\ body.family = Builder
    /\ json = NotCalled
    /\ json' = CompletionRequestBodyBuilder_to_json(body)
    /\ UNCHANGED <<body, hist, calls, clientvars>>

NextBuilder ==
    \/ \E m \in BuilderMethods : \E x \in BuilderArgs(m) : BuilderCall(m, x)
    \/ BuilderToJson

\* a <Family>Request bound to text-davinci-003, or a
\* CompletionRequestBodyBuilder
InitBuild ==
    \/ InitBody /\ body.model.id = "text-davinci-003"
    \/ InitBuilder

\* body.with_<f>(vec![]) for a field that holds a list of strings
WithEmpty(f) == FieldType(f) = "Vec<String>" /\ With(f, <<>>)

NextBuild ==
    \/ body.family # Builder /\ NextBody
    \/ body.family # Builder /\ \E f \in OptFields(body.family) : WithEmpty(f)
    \/ NextBuilder

SpecBuild == InitBuild /\ [][NextBuild]_vars

---------------------------------------------------------------------------
(* Clients and Models of any key and organization string *)

\* keys and organizations with and without a byte no header value may hold
KeyStrings == {"sk-test", "sk-test\n"}
OrgStrings == {"org-1", "org\t1", "org-1\r\n"}

KeysModelJsons == {ModelJson(id) : id \in {"gpt-4", "text-davinci-003", "whisper-1"}}
KeysGetResults ==
    {Err([kind |-> "connect"]), Ok(Readable(ModelJson("gpt-4"))),
     Ok(Readable(Without(ModelJson("gpt-4"), "id")))}
KeysListResults ==
    {Err([kind |-> "connect"]),
     Ok(Readable(JObject([object |-> JString("list"),
                          data |-> JArray(<<ModelJson("gpt-4")>>)])))}

\* Client::new(key), with or without .organization(org), for any strings
InitKeys ==
    /\ client \in {new(k) : k \in KeyStrings}
                  \cup {organization(new(k), o) : k \in KeyStrings, o \in OrgStrings}
    /\ http = <<>>
    /\ handle = NotCalled
    /\ models = NotCalled
    /\ body = NoBody
    /\ hist = <<>>
    /\ json = NotCalled
    /\ calls = [c \in Calls |-> Idle]

\* Model::new_parse_json(&key, &org, .., &mjson) called by the user on a
\* document of their own
NewParseJson(mjson) ==
    /\ handle = NotCalled
    /\ handle' = new_parse_json(client.api_key, client.organization, mjson)
    /\ UNCHANGED <<body, hist, json, calls, client, http, models>>

\* the transport answers the request of the call made on the body built, and
\* the call parses the answer
Finish ==
    /\ body # NoBody
    /\ \/ \E r \in SendResults(body.family) : SendReturns(1, r)
       \/ Parse(1)

NextKeys ==
    \/ \E m \in Modes, r \in KeysGetResults : RetrieveModelInfo(m, "gpt-4", r)
    \/ \E m \in Modes, r \in KeysListResults : ListModels(m, r)
    \/ \E mjson \in KeysModelJsons : NewParseJson(mjson)
    \/ \E F \in Families : \E req \in ReqArgs(F) : Build(F, req)
    \/ \E m \in Modes : Execute(m)
    \/ Finish

SpecKeys == InitKeys /\ [][NextKeys]_vars

---------------------------------------------------------------------------
(* What the claims speak of *)

\* the model bound to the body is in the family's compatible-model list
Compatible == body.model.id \in COMPATIBLE_MODELS(body.family)

\* the steps of execute in their fixed order
StepOrder == <<"check", "to_json", "post", "parse">>

IsPrefix(s, t) == Len(s) <= Len(t) /\ \A i \in 1..Len(s) : s[i] = t[i]

Done(c) == calls[c].pc = "done"

\* the variant of the Error a finished call returned, "" for an Ok
ErrorKind(c) ==
    IF calls[c].outcome.ok THEN "" ELSE calls[c].outcome.err.variant

\* serialization was run by call c, and failed or succeeded
Serialized(c) == calls[c].json # NotCalled
SerializationFailed(c) == Serialized(c) /\ ~calls[c].json.ok

\* the transport answered the POST of call c
Answered(c) == calls[c].res # NotCalled
\* the HTTP exchange itself failed: no connection, or a body that cannot be read
TransportFailed(c) ==
    Answered(c) /\ (~calls[c].res.ok \/ ~calls[c].res.val.readable)
\* the exchange succeeded and delivered the JSON document p
Delivered(c) ==
    Answered(c) /\ calls[c].res.ok /\ calls[c].res.val.readable

\* two requests are the same on the wire
SameWire(r1, r2) ==
    /\ r1.method = r2.method
    /\ r1.url = r2.url
    /\ r1.headers = r2.headers
    /\ r1.json = r2.json

\* the optional fields of the body that some with_<field> call of hist set
SetByWith == {hist[i].f : i \in DOMAIN hist}
\* the argument of the last with_<f> call
LastWith(f) ==
    hist[CHOOSE i \in DOMAIN hist :
            /\ hist[i].f = f
            /\ \A j \in DOMAIN hist : hist[j].f = f => j <= i].x

\* hist is the single call with_<f>(x)
OnlyWith(f, x) == Len(hist) = 1 /\ hist[1].f = f /\ hist[1].x = x

\* the optional f64 fields of the body that hold a non-finite value
NonFiniteFields ==
    {f \in OptFields(body.family) :
        /\ FieldType(f) = "f64"
        /\ body.opt[f].some
        /\ body.opt[f].v \in NonFinite}

---------------------------------------------------------------------------
(* C1 *)

\* C1: a call of execute or execute_blocking on a body whose model is not in
\* the family's compatible-model list returns a ModelError and has issued no
\* HTTP request.
C1_IncompatibleNoHttp ==
    \A c \in Calls :
        (calls[c].pc # "idle" /\ ~Compatible) =>
            /\ Done(c)
            /\ ~calls[c].outcome.ok
            /\ calls[c].outcome.err.variant = "ModelError"
            /\ calls[c].sent = <<>>
            /\ ~Answered(c)

\* gpt-3.5-turbo submitted to the TextCompletion family, in both variants
C1_Witness ==
    /\ body.family = "TextCompletion"
    /\ body.model.id = "gpt-3.5-turbo"
    /\ \E c, d \in Calls :
         /\ calls[c].mode = "async" /\ Done(c)
         /\ calls[d].mode = "blocking" /\ Done(d)

---------------------------------------------------------------------------
(* C2 *)

\* C2: the steps of a call occur in the order check, to_json, POST, parse,
\* and the call stops at the first that fails: after a failed check there is
\* no serialization and no POST, after a failed serialization no POST and the
\* error returned is the SerializationError, after a failed POST no parse.
C2_StepsInOrderStopAtFirstFailure ==
    \A c \in Calls :
        /\ IsPrefix(calls[c].steps, StepOrder)
        /\ (calls[c].outcome # NotCalled) <=> Done(c)
        /\ (calls[c].steps # <<>> /\ ~Compatible) =>
              /\ calls[c].steps = <<"check">>
              /\ ~Serialized(c)
              /\ calls[c].sent = <<>>
        /\ SerializationFailed(c) =>
              /\ calls[c].steps = <<"check", "to_json">>
              /\ calls[c].sent = <<>>
              /\ Done(c)
              /\ calls[c].outcome = Err(FromSerdeJsonError(calls[c].json.err))
        /\ (Answered(c) /\ ~calls[c].res.ok) =>
              /\ calls[c].steps = <<"check", "to_json", "post">>
              /\ Done(c)
        /\ Len(calls[c].sent) = 1 <=> (Len(calls[c].steps) >= 3)

\* a call whose POST failed, stopped before the parse
C2_Witness ==
    \E c \in Calls :
        /\ Done(c)
        /\ Answered(c) /\ ~calls[c].res.ok
        /\ calls[c].steps = <<"check", "to_json", "post">>

---------------------------------------------------------------------------
(* C3 *)

---------------------------------------------------------------------------
(* C4 *)

\* C4: on the same body and model, a finished execute and a finished
\* execute_blocking have sent the same requests (URL, headers, payload), and
\* when the transport answered both alike (or neither was answered) they
\* went through the same steps and returned equal outcomes.
C4_BlockingEqualsAsync ==
    \A c, d \in Calls :
        (Done(c) /\ Done(d) /\ calls[c].mode = "async" /\ calls[d].mode = "blocking") =>
            /\ Len(calls[c].sent) = Len(calls[d].sent)
            /\ \A i \in 1..Len(calls[c].sent) :
                  SameWire(calls[c].sent[i], calls[d].sent[i])
            /\ calls[c].json = calls[d].json
            /\ (calls[c].res = calls[d].res) =>
                  /\ calls[c].steps = calls[d].steps
                  /\ calls[c].outcome = calls[d].outcome

\* both variants ran to a parsed Response on the same reply
C4_Witness ==
    \E c, d \in Calls :
        /\ Done(c) /\ calls[c].mode = "async"
        /\ Done(d) /\ calls[d].mode = "blocking"
        /\ calls[c].res = calls[d].res
        /\ calls[c].outcome.ok

---------------------------------------------------------------------------
(* C5 *)

\* C5: right after init every optional field is unset, and the object
\* to_json produces holds no key (neither null nor a default) for an
\* optional field that no with_<field> call has set.
C5_UnsetFieldsOmitted ==
    /\ hist = <<>> => \A f \in OptFields(body.family) : body.opt[f] = None
    /\ json # NotCalled =>
          /\ json.ok
          /\ json.val.t = "object"
          /\ \A f \in OptFields(body.family) \ SetByWith : f \notin DOMAIN json.val.o

\* to_json was run on a body with one optional field set and the others not
C5_Witness ==
    /\ json # NotCalled
    /\ Cardinality(SetByWith) = 1
    /\ Cardinality(OptFields(body.family)) > 1

---------------------------------------------------------------------------
(* C6 *)

\* the names of the required fields of each family, as the claim lists them
C6_Required(F) ==
    CASE F = "ChatCompletion" -> {"messages"}
      [] F = "Edit" -> {"instruction"}
      [] F = "TextCompletion" -> {}

\* C6: the keys of the object to_json produces are exactly "model", the
\* family's required fields and the optional fields set by a with_<field>
\* call; "model" holds the bound model's id; a TextCompletion body for
\* text-davinci-003 with only prompt ["Say hi"] set gives exactly
\* {"model": "text-davinci-003", "prompt": ["Say hi"]}.
C6_ExactKeySet ==
    (json # NotCalled /\ json.ok) =>
        /\ DOMAIN json.val.o = {"model"} \cup C6_Required(body.family) \cup SetByWith
        /\ json.val.o["model"] = JString(body.model.id)
        /\ ( /\ body.family = "TextCompletion"
             /\ body.model.id = "text-davinci-003"
             /\ OnlyWith("prompt", <<"Say hi">>) ) =>
              json.val = JObject([model |-> JString("text-davinci-003"),
                                  prompt |-> JArray(<<JString("Say hi")>>)])

\* the scenario of the claim, serialized
C6_Witness ==
    /\ json # NotCalled
    /\ body.family = "TextCompletion"
    /\ body.model.id = "text-davinci-003"
    /\ OnlyWith("prompt", <<"Say hi">>)

---------------------------------------------------------------------------
(* C7 *)

\* C7: with_<f> is last-writer-wins: the body holds, and to_json serializes,
\* for each optional field the argument of the last with_<f> call only, and
\* no key for a field with_<f> was never called on; with_<f>(v) twice gives
\* the body with_<f>(v) once gives.
C7_LastWriterWins ==
    /\ \A f \in OptFields(body.family) :
          body.opt[f] = IF f \in SetByWith THEN Some(LastWith(f)) ELSE None
    /\ (json # NotCalled /\ json.ok) =>
          \A f \in OptFields(body.family) :
              IF f \in SetByWith
              THEN /\ f \in DOMAIN json.val.o
                   /\ json.val.o[f] = to_value(FieldType(f), LastWith(f)).val
              ELSE f \notin DOMAIN json.val.o

\* with_<f>(v1) then with_<f>(v2), v1 # v2, serialized
C7_Witness ==
    /\ json # NotCalled
    /\ Len(hist) = 2
    /\ hist[1].f = hist[2].f
    /\ hist[1].x # hist[2].x

---------------------------------------------------------------------------
(* C8 *)

\* C8: when an f64 field of the body holds NaN or an infinity, to_json
\* returns an error, and execute returns it as SerializationError without
\* having issued an HTTP request.
C8_NonFiniteIsSerializationError ==
    \A c \in Calls :
        (Serialized(c) /\ NonFiniteFields # {}) =>
            /\ ~calls[c].json.ok
            /\ calls[c].sent = <<>>
            /\ Done(c)
            /\ ErrorKind(c) = "SerializationError"

---------------------------------------------------------------------------
(* C9 *)

\* C9: the Error of a call whose HTTP exchange failed (no connection, body
\* unreadable) is of another variant than the Error of a call whose exchange
\* succeeded with a body that does not match the Response shape.
C9_TransportAndParseErrorsDiffer ==
    \A c, d \in Calls :
        ( /\ Done(c) /\ TransportFailed(c)
          /\ Done(d) /\ Delivered(d) /\ ~calls[d].outcome.ok ) =>
            ErrorKind(c) # ErrorKind(d)

---------------------------------------------------------------------------
(* C10 *)

\* C10: when the reply is a JSON object without "choices", the call returns
\* an Error of variant ParseError that names "choices".
C10_MissingChoicesIsParseError ==
    \A c \in Calls :
        ( /\ Done(c) /\ Delivered(c)
          /\ calls[c].res.val.json.t = "object"
          /\ "choices" \notin DOMAIN calls[c].res.val.json.o ) =>
            /\ ~calls[c].outcome.ok
            /\ calls[c].outcome.err.variant = "ParseError"
            /\ calls[c].outcome.err.source = MissingField("choices")

---------------------------------------------------------------------------
(* C11 *)

\* the exchange of the Client's retrieve_model_info
Retrieved == CHOOSE i \in DOMAIN http : http[i].req.url # MODELS_LIST_URL
\* the JSON document the server delivered to that GET, if it did
GetDelivered ==
    /\ handle # NotCalled
    /\ http[Retrieved].res.ok
    /\ http[Retrieved].res.val.readable
GetJson == http[Retrieved].res.val.json

\* the fields the claim lists, each with the JSON type it expects
C11_ModelExpected ==
    [created |-> "number", id |-> "string", owned_by |-> "string",
     parent |-> "any", permission |-> "array"]
C11_PermissionExpected ==
    [allow_create_engine |-> "bool", allow_fine_tuning |-> "bool",
     allow_logprobs |-> "bool", allow_sampling |-> "bool",
     allow_search_indices |-> "bool", allow_view |-> "bool",
     is_blocking |-> "bool", created |-> "number", group |-> "any",
     id |-> "string", organization |-> "string"]

\* v is of the JSON type ty; a number stands for a u64 timestamp, so a
\* negative or fractional one is mistyped
C11_TypeOk(v, ty) ==
    CASE ty = "any" -> TRUE
      [] ty = "number" -> v.t = "number" /\ "n" \in DOMAIN v /\ v.n \in Nat
      [] OTHER -> v.t = ty

\* the expected fields that v does not hold, or holds at another JSON type
C11_Bad(v, expected) ==
    {k \in DOMAIN expected :
        \/ v.t # "object"
        \/ k \notin DOMAIN v.o
        \/ ~C11_TypeOk(v.o[k], expected[k])}

C11_BadFields(v) ==
    C11_Bad(v, C11_ModelExpected)
    \cup IF "permission" \notin C11_Bad(v, C11_ModelExpected)
         THEN UNION {C11_Bad(v.o.permission.a[i], C11_PermissionExpected) :
                        i \in DOMAIN v.o.permission.a}
         ELSE {}

\* C11: retrieve_model_info returns a Model only for a JSON document in which
\* every expected field of the Model and of each of its permissions is present
\* at its JSON type, and the Model holds the document's values; for a document
\* in which some expected field is missing or mistyped it returns a ParseError
\* that is FieldNotFound naming such a field.
C11_ParseAllOrFieldNotFound ==
    (GetDelivered /\ handle # NotCalled) =>
        /\ handle.ok =>
              /\ C11_BadFields(GetJson) = {}
              /\ handle.val.created = GetJson.o.created.n
              /\ handle.val.id = GetJson.o.id.s
              /\ handle.val.owned_by = GetJson.o.owned_by.s
              /\ handle.val.parent = GetJson.o.parent
              /\ Len(handle.val.permission) = Len(GetJson.o.permission.a)
              /\ \A i \in DOMAIN handle.val.permission :
                    /\ handle.val.permission[i].allow_view
                          = GetJson.o.permission.a[i].o.allow_view.b
                    /\ handle.val.permission[i].is_blocking
                          = GetJson.o.permission.a[i].o.is_blocking.b
                    /\ handle.val.permission[i].id
                          = GetJson.o.permission.a[i].o.id.s
        /\ C11_BadFields(GetJson) # {} =>
              /\ ~handle.ok
              /\ handle.err.variant = "ParseError"
              /\ handle.err.source.kind = "FieldNotFound"
              /\ handle.err.source.field \in C11_BadFields(GetJson)

\* a document whose second permission lacks allow_view was parsed
C11_Witness ==
    /\ GetDelivered
    /\ handle # NotCalled
    /\ GetJson.t = "object"
    /\ C11_Bad(GetJson, C11_ModelExpected) = {}
    /\ Len(GetJson.o.permission.a) = 2
    /\ C11_BadFields(GetJson) = {"allow_view"}

---------------------------------------------------------------------------
(* Model::*_COMPATIBLE, enum ModelError and its Display *)

CHAT_COMPLETIONS_COMPATIBLE ==
    <<"gpt-4", "gpt-4-0314", "gpt-4-32k", "gpt-4-32k-0314", "gpt-3.5-turbo",
      "gpt-3.5-turbo-0301">>
TEXT_COMPLETIONS_COMPATIBLE ==
    <<"text-davinci-003", "text-davinci-002", "text-curie-001",
      "text-babbage-001", "text-ada-001", "davinci", "curie", "babbage", "ada">>
EDITS_COMPATIBLE == <<"text-davinci-edit-001", "code-davinci-edit-001">>

\* the variants enum ModelError declares
ModelError == {"NotCompatibleWithTextCompletion", "NotCompatibleWithChatCompletion"}

\* impl Display for ModelError: the text written, and the list {:?} prints
ModelError_fmt(e) ==
    CASE e = "NotCompatibleWithTextCompletion" ->
            [text |-> "Model is not compatible with text completion endpoint, please use one of these models: ",
             list |-> TEXT_COMPLETIONS_COMPATIBLE]
      [] e = "NotCompatibleWithChatCompletion" ->
            [text |-> "Model is not compatible with chat completion endpoint, please use one of these models: ",
             list |-> CHAT_COMPLETIONS_COMPATIBLE]

---------------------------------------------------------------------------
(* C12 *)

\* the endpoint of each family, as a message names it
C12_Endpoint(F) ==
    CASE F = "TextCompletion" -> "text completion"
      [] F = "ChatCompletion" -> "chat completion"
      [] F = "Edit" -> "edit"

\* C12: the error a call returns for an incompatible model is, in each of the
\* three families, a variant of ModelError that no other family returns, and
\* its message names the family's endpoint and lists exactly the family's
\* compatible models.
C12_ModelErrorPerFamily ==
    \A c \in Calls :
        (Done(c) /\ ErrorKind(c) = "ModelError") =>
            LET e == calls[c].outcome.err.source.model_error
            IN  /\ e \in ModelError
                /\ \A G \in Families \ {body.family} : model_error(G) # e
                /\ ModelError_fmt(e).text =
                      "Model is not compatible with " \o C12_Endpoint(body.family)
                          \o " endpoint, please use one of these models: "
                /\ Range(ModelError_fmt(e).list) = COMPATIBLE_MODELS(body.family)

---------------------------------------------------------------------------
(* C13 *)

\* the call made through the resolved handle got past its compatibility check
C13_Passed == ~(calls[1].pc = "done" /\ calls[1].steps = <<"check">>)

\* C13: the compatibility check of a call passes exactly when the model's id
\* is, character for character, one of the family's listed identifiers: an id
\* that differs from a listed one in letter case, by a prefix or suffix or by
\* surrounding whitespace fails; a failed check is the family's ModelError
\* and nothing else, and the check leaves the Model as it was resolved.
C13_ExactMembership ==
    calls[1].pc # "idle" =>
        /\ C13_Passed <=> body.model.id \in COMPATIBLE_MODELS(body.family)
        /\ body.model.id \in NearMissIds => ~C13_Passed
        /\ ~C13_Passed =>
              /\ calls[1].steps = <<"check">>
              /\ calls[1].outcome = Err(FromModelError(model_error(body.family)))
              /\ calls[1].sent = <<>>
        /\ C13_Passed => calls[1].outcome = NotCalled
        /\ body.model = handle.val
        /\ body.model.id = GetJson.o.id.s

\* "GPT-4" was checked against the ChatCompletion family
C13_Witness ==
    /\ calls[1].pc = "done"
    /\ body.family = "ChatCompletion"
    /\ body.model.id = "GPT-4"
    /\ calls[1].mode = "async"

---------------------------------------------------------------------------
(* C14 *)

\* every HTTP request issued: the Client's GETs and the POSTs of the calls
C14_Requests ==
    {http[i].req : i \in DOMAIN http}
    \cup UNION {Range(calls[c].sent) : c \in Calls}

\* C14: every request issued (GET /models, GET /models/{id}, and the POST of
\* a call made through the resolved Model) carries Authorization equal to
\* "Bearer " followed by the key given to Client::new, carries
\* OpenAI-Organization exactly when an organization was set on the Client,
\* with that organization as its value, and no other header of the library;
\* every Model the Client resolved holds the Client's key and organization.
C14_AuthAndOrgHeaders ==
    /\ client.api_key = ApiKey
    /\ \A q \in C14_Requests :
          /\ "Authorization" \in DOMAIN q.headers
          /\ q.headers["Authorization"] = <<"Bearer ", ApiKey>>
          /\ ("OpenAI-Organization" \in DOMAIN q.headers) <=> client.organization.some
          /\ client.organization.some =>
                q.headers["OpenAI-Organization"] = <<client.organization.v>>
          /\ DOMAIN q.headers \subseteq {"Authorization", "OpenAI-Organization"}
    /\ (handle # NotCalled /\ handle.ok) =>
          /\ handle.val.api_key = client.api_key
          /\ handle.val.org_id = client.organization
    /\ (models # NotCalled /\ models.ok) =>
          \A i \in DOMAIN models.val :
              /\ models.val[i].api_key = client.api_key
              /\ models.val[i].org_id = client.organization

\* a Client with an organization made both GETs and a POST through its Model
C14_Witness ==
    /\ client.organization = Some("org-1")
    /\ \E i, j \in DOMAIN http :
          /\ http[i].req.url = MODELS_LIST_URL
          /\ http[j].req.url # MODELS_LIST_URL
    /\ models # NotCalled /\ models.ok /\ models.val # <<>>
    /\ calls[1].sent # <<>>
    /\ calls[1].sent[1].method = "POST"

---------------------------------------------------------------------------
(* C15 *)

\* the sub-path of each family under the base URL
C15_Path(F) ==
    CASE F = "TextCompletion" -> "/completions"
      [] F = "ChatCompletion" -> "/chat/completions"
      [] F = "Edit" -> "/edits"

\* C15: every request a call issues is a POST to the family's fixed URL, the
\* base URL followed by the family's sub-path, whatever the body's fields and
\* the bound model are; for TextCompletion and ChatCompletion that URL is the
\* constant derived from BASE_URL (TEXT_COMPLETION_URL, CHAT_COMPLETION_URL).
C15_PostToFamilyUrl ==
    \A c \in Calls : \A i \in DOMAIN calls[c].sent :
        LET q == calls[c].sent[i]
        IN  /\ q.method = "POST"
            /\ q.url = BASE_URL \o C15_Path(body.family)
            /\ body.family = "TextCompletion" => q.url = TEXT_COMPLETION_URL
            /\ body.family = "ChatCompletion" => q.url = CHAT_COMPLETION_URL
            /\ \A F \in Families \ {body.family} : q.url # BASE_URL \o C15_Path(F)

\* an Edit body with a field set by with_<field> was posted
C15_Witness ==
    /\ body.family = "Edit"
    /\ hist # <<>>
    /\ \E c \in Calls : calls[c].sent # <<>>

---------------------------------------------------------------------------
(* C16 *)

\* the tag the claim gives each role
C16_Tag(r) ==
    CASE r = "User" -> "user"
      [] r = "System" -> "system"
      [] r = "Assistant" -> "assistant"

\* C16: in the object to_json produces for a ChatCompletion body, each
\* message's role is the string of its lowercase tag (User "user", System
\* "system", Assistant "assistant") beside its content, messages of different
\* roles have different tags, deserializing the tag gives the role back, and
\* the message {role: User, content: "Hello"} has role "user".
C16_ChatRoleTags ==
    (json # NotCalled /\ json.ok /\ body.family = "ChatCompletion") =>
        LET ms == body.req.messages
            out == json.val.o.messages
        IN  /\ out.t = "array"
            /\ Len(out.a) = Len(ms)
            /\ \A i \in DOMAIN ms :
                  /\ out.a[i].o.role = JString(C16_Tag(ms[i].role))
                  /\ out.a[i].o.content = JString(ms[i].content)
                  /\ Deserialize("ChatRole", out.a[i].o.role) = Ok(ms[i].role)
                  /\ Deserialize("ChatMessage", out.a[i]) = Ok(ms[i])
            /\ \A i, j \in DOMAIN ms :
                  ms[i].role # ms[j].role => out.a[i].o.role # out.a[j].o.role
            /\ ms = <<ChatMessage("User", "Hello")>> =>
                  out = JArray(<<JObject([role |-> JString("user"),
                                          content |-> JString("Hello")])>>)

\* the message {role: User, content: "Hello"} was serialized
C16_Witness ==
    /\ json # NotCalled
    /\ body.family = "ChatCompletion"
    /\ body.req.messages = <<ChatMessage("User", "Hello")>>

---------------------------------------------------------------------------
(* C17 *)

C17_Usage == [completion_tokens |-> 1, prompt_tokens |-> 2, total_tokens |-> 3]

\* the choices ValidPayload and TwoChoices hold, as Rust values
C17_Choices(F) ==
    CASE F = "TextCompletion" ->
            << [finish_reason |-> "stop", index |-> 0, logprobs |-> None, text |-> "Hi"],
               [finish_reason |-> "length", index |-> 1, logprobs |-> Some(5), text |-> "Ho"] >>
      [] F = "ChatCompletion" ->
            << [index |-> 0, message |-> ChatMessage("Assistant", "Hi"),
                finish_reason |-> "stop"],
               [index |-> 1, message |-> ChatMessage("User", "Ho"),
                finish_reason |-> "length"] >>
      [] F = "Edit" -> << [text |-> "Hi", index |-> 0], [text |-> "Ho", index |-> 1] >>

\* the Response that holds what ValidPayload (n = 1) and TwoChoices (n = 2) hold
C17_Response(F, n) ==
    CASE F = "TextCompletion" ->
            [choices |-> SubSeq(C17_Choices(F), 1, n), created |-> 1677,
             id |-> "cmpl-1", model |-> "text-davinci-003",
             object |-> "text_completion", usage |-> C17_Usage]
      [] F = "ChatCompletion" ->
            [id |-> "chatcmpl-1", object |-> "chat.completion", created |-> 1677,
             choices |-> SubSeq(C17_Choices(F), 1, n), usage |-> C17_Usage]
      [] F = "Edit" ->
            [object |-> "edit", created |-> 1677,
             choices |-> SubSeq(C17_Choices(F), 1, n), usage |-> C17_Usage]

\* the reply delivered to call c is p
C17_Got(c, p) ==
    /\ Delivered(c)
    /\ DOMAIN calls[c].res.val.json.o = DOMAIN p.o
    /\ calls[c].res.val.json.o.created = p.o.created
    /\ calls[c].res.val.json.o.choices = p.o.choices

\* C17: a call whose reply is a payload of its family's Response shape
\* returns a Response holding the payload's values field for field: the
\* identifiers, the created timestamp, every choice in the payload's order,
\* an absent logprobs as None and a present one as Some, the usage counters.
C17_ResponseRoundTrip ==
    \A c \in Calls :
        Done(c) =>
            /\ C17_Got(c, ValidPayload(body.family)) =>
                  calls[c].outcome = Ok(C17_Response(body.family, 1))
            /\ C17_Got(c, TwoChoices(body.family)) =>
                  calls[c].outcome = Ok(C17_Response(body.family, 2))

\* a ChatCompletion call was answered with the two-choice payload
C17_Witness ==
    \E c \in Calls :
        /\ Done(c)
        /\ body.family = "ChatCompletion"
        /\ C17_Got(c, TwoChoices("ChatCompletion"))

---------------------------------------------------------------------------
(* C18 *)

\* C18: a body is the source of at most one payload: once a call has
\* serialized it, no other call serializes it.
C18_SerializedAtMostOnce ==
    Cardinality({c \in Calls : Serialized(c)}) <= 1

---------------------------------------------------------------------------
(* C19 *)

\* the state of a call in mode m on body b that has run alone as far as pc,
\* the transport having answered r where it got that far
C19_Alone(m, b, pc, r) ==
    LET a == RunToSend(m, b)
        s == IF m = "blocking" THEN execute_blocking_send(a, r)
             ELSE execute_send(a, r)
        j == IF m = "blocking" THEN execute_blocking_json(s, b)
             ELSE execute_json(s, b)
    IN  IF a.pc = "done" \/ r = NotCalled THEN a
        ELSE IF s.pc = "done" \/ pc = "json" THEN s
        ELSE j

\* C19: however the calls on a body interleave, a call that is waiting for
\* its answer, has got it, or has returned is in the state (payload, URL and
\* headers sent, steps, outcome) it would be in had it run alone to that
\* point against the same answer; the Model and the Client are as they were.
C19_CallsIndependent ==
    /\ \A c \in Calls :
          calls[c].pc \in {"send", "json", "done"} =>
              calls[c] = C19_Alone(calls[c].mode, body, calls[c].pc, calls[c].res)
    /\ body.model \in Models
    /\ client = new(ApiKey)

\* two calls are in flight at once in different modes: one has been
\* delivered a reply it has yet to parse, the other waits for its answer
C19_Witness ==
    \E c, d \in Calls :
        /\ c # d
        /\ calls[c].pc = "json" /\ Delivered(c)
        /\ calls[d].pc = "send"
        /\ calls[c].mode # calls[d].mode

---------------------------------------------------------------------------
(* C20 *)

\* C20: no step of execute or execute_blocking, to_json included, changes
\* the body or the Model bound to it, whatever the step returns; so every
\* call that serialized the body got the same result.
C20_BodyUnchanged ==
    /\ [][body' = body]_vars
    /\ [](\A c, d \in Calls :
             (Serialized(c) /\ Serialized(d)) => calls[c].json = calls[d].json)

\* a body with a field set was serialized by two calls, one of which
\* returned an error and the other a Response
C20_Witness ==
    /\ hist # <<>>
    /\ \E c, d \in Calls :
          /\ Serialized(c) /\ Done(c) /\ calls[c].outcome.ok
          /\ Serialized(d) /\ Done(d) /\ ~calls[d].outcome.ok

---------------------------------------------------------------------------
(* C21 *)

\* the order in which the claim says the fields are checked
C21_ModelOrder == <<"created", "id", "owned_by", "parent", "permission">>
C21_PermissionOrder ==
    <<"allow_create_engine", "allow_fine_tuning", "allow_logprobs",
      "allow_sampling", "allow_search_indices", "allow_view", "created",
      "group", "id", "is_blocking", "organization">>

\* the first name of order that is in the non-empty set bad
C21_FirstOf(order, bad) ==
    order[CHOOSE i \in DOMAIN order :
             /\ order[i] \in bad
             /\ \A j \in DOMAIN order : order[j] \in bad => i <= j]

\* the positions of the permission array of v that hold a damaged permission
C21_BadPermissions(v) ==
    {i \in DOMAIN v.o.permission.a :
        C11_Bad(v.o.permission.a[i], C11_PermissionExpected) # {}}

\* the field the claim says the error names for the damaged document v
C21_Named(v) ==
    IF C11_Bad(v, C11_ModelExpected) # {}
    THEN C21_FirstOf(C21_ModelOrder, C11_Bad(v, C11_ModelExpected))
    ELSE LET i == CHOOSE k \in C21_BadPermissions(v) :
                      \A j \in C21_BadPermissions(v) : k <= j
         IN  C21_FirstOf(C21_PermissionOrder,
                         C11_Bad(v.o.permission.a[i], C11_PermissionExpected))

\* C21: for a document with one or more missing or mistyped fields,
\* retrieve_model_info returns FieldNotFound naming the first bad field of
\* the Model in the order created, id, owned_by, parent, permission; when the
\* Model's own fields are sound, it names the first bad field, in the order
\* of ModelPermission::parse, of the first damaged element of the permission
\* array, whatever later fields and later elements hold.
C21_FirstFailingFieldNamed ==
    (GetDelivered /\ C11_BadFields(GetJson) # {}) =>
        /\ ~handle.ok
        /\ handle.err = FromParseError(FieldNotFound(C21_Named(GetJson)))

\* a document was parsed whose first permission lacks id and whose second
\* lacks the earlier-checked allow_view
C21_Witness ==
    /\ GetDelivered
    /\ GetJson.t = "object"
    /\ C11_Bad(GetJson, C11_ModelExpected) = {}
    /\ C21_BadPermissions(GetJson) = {1, 2}
    /\ C11_Bad(GetJson.o.permission.a[1], C11_PermissionExpected) = {"id"}
    /\ C11_Bad(GetJson.o.permission.a[2], C11_PermissionExpected) = {"allow_view"}

---------------------------------------------------------------------------
(* C22 *)

\* the exchange of the Client's list_models
Listed == CHOOSE i \in DOMAIN http : http[i].req.url = MODELS_LIST_URL
\* the JSON document the server delivered to that GET, if it did
ListDelivered ==
    /\ models # NotCalled
    /\ http[Listed].res.ok
    /\ http[Listed].res.val.readable
ListJson == http[Listed].res.val.json

\* the reply holds a "data" member that is an array
C22_HasData ==
    /\ ListJson.t = "object"
    /\ "data" \in DOMAIN ListJson.o
    /\ ListJson.o.data.t = "array"

\* the positions of "data" whose element fails Model parsing
C22_BadElements ==
    {i \in DOMAIN ListJson.o.data.a : C11_BadFields(ListJson.o.data.a[i]) # {}}

\* C22: list_models and list_models_blocking return FieldNotFound("data") for
\* a reply without a "data" array; for a reply in which some element of
\* "data" fails Model parsing they return the error of such an element (the
\* first) and no Model; otherwise they return one Model per element of "data",
\* in the same order, holding the element's values.
C22_ListAllOrNothing ==
    ListDelivered =>
        /\ ~C22_HasData => models = Err(FromParseError(FieldNotFound("data")))
        /\ (C22_HasData /\ C22_BadElements # {}) =>
              /\ ~models.ok
              /\ \E i \in C22_BadElements :
                    /\ models.err =
                          FromParseError(FieldNotFound(C21_Named(ListJson.o.data.a[i])))
                    /\ \A j \in C22_BadElements : i <= j
        /\ (C22_HasData /\ C22_BadElements = {}) =>
              /\ models.ok
              /\ Len(models.val) = Len(ListJson.o.data.a)
              /\ \A i \in DOMAIN models.val :
                    /\ models.val[i].id = ListJson.o.data.a[i].o.id.s
                    /\ models.val[i].created = ListJson.o.data.a[i].o.created.n
                    /\ models.val[i].owned_by = ListJson.o.data.a[i].o.owned_by.s

\* a list of three elements was parsed, the second and third of which fail
C22_Witness ==
    /\ ListDelivered
    /\ C22_HasData
    /\ Len(ListJson.o.data.a) = 3
    /\ C22_BadElements = {2, 3}

\* a list of three sound elements was parsed by list_models_blocking
C22_WitnessOk ==
    /\ ListDelivered
    /\ C22_HasData
    /\ Len(ListJson.o.data.a) = 3
    /\ C22_BadElements = {}
    /\ http[Listed].req.client = "blocking_client"

---------------------------------------------------------------------------
(* C23 *)

\* to_json was called on the body and returned a JSON value
C23_Serialized ==
    /\ json # NotCalled
    /\ IF body.family = Builder THEN "returned" \in DOMAIN json ELSE json.ok
C23_Out == IF body.family = Builder THEN json.returned ELSE json.val

\* the pairs given to the builder's last logit_bias call
C23_PairsGiven ==
    hist[CHOOSE i \in DOMAIN hist :
            /\ hist[i].f = "logit_bias"
            /\ \A j \in DOMAIN hist : hist[j].f = "logit_bias" => j <= i].x

\* C23: in the object to_json returns, of a <Family>Request as of a
\* CompletionRequestBodyBuilder, a prompt or stop that is set is an array of
\* exactly the field's strings, each a JSON string, in the field's order (an
\* empty list is an empty array under its key), and a logit_bias that is set
\* is an object with exactly the map's keys, each holding its integer; for the
\* builder, whose logit_bias takes pairs, the keys are those of the pairs
\* given and each holds the integer of a pair with that key.
C23_ListsAndMapSerialize ==
    C23_Serialized =>
        /\ C23_Out.t = "object"
        /\ \A f \in {"prompt", "stop"} \cap DOMAIN body.opt :
              body.opt[f].some =>
                  /\ f \in DOMAIN C23_Out.o
                  /\ C23_Out.o[f].t = "array"
                  /\ Len(C23_Out.o[f].a) = Len(body.opt[f].v)
                  /\ \A i \in DOMAIN body.opt[f].v :
                        C23_Out.o[f].a[i] = JString(body.opt[f].v[i])
        /\ ("logit_bias" \in DOMAIN body.opt /\ body.opt["logit_bias"].some) =>
              /\ "logit_bias" \in DOMAIN C23_Out.o
              /\ C23_Out.o["logit_bias"].t = "object"
              /\ DOMAIN C23_Out.o["logit_bias"].o = DOMAIN body.opt["logit_bias"].v
              /\ \A k \in DOMAIN body.opt["logit_bias"].v :
                    C23_Out.o["logit_bias"].o[k] = JInt(body.opt["logit_bias"].v[k])
        /\ (body.family = Builder /\ body.opt["logit_bias"].some) =>
              LET ps == C23_PairsGiven
                  o == C23_Out.o["logit_bias"].o
              IN  /\ DOMAIN o = {ps[i][1] : i \in DOMAIN ps}
                  /\ \A k \in DOMAIN o :
                        o[k] \in {JInt(ps[i][2]) : i \in {j \in DOMAIN ps : ps[j][1] = k}}
                  /\ (\A i, j \in DOMAIN ps : ps[i][1] = ps[j][1] => i = j) =>
                        \A i \in DOMAIN ps : o[ps[i][1]] = JInt(ps[i][2])

\* a TextCompletionRequest with an empty prompt and a logit_bias of two
\* tokens was serialized
C23_Witness ==
    /\ C23_Serialized
    /\ body.family = "TextCompletion"
    /\ body.opt["prompt"] = Some(<<>>)
    /\ body.opt["logit_bias"].some
    /\ Cardinality(DOMAIN body.opt["logit_bias"].v) = 2

---------------------------------------------------------------------------
(* C24 *)

RECURSIVE C24_Concat(_)
\* the lists of ss, one after the other
C24_Concat(ss) == IF ss = <<>> THEN <<>> ELSE Head(ss) \o C24_Concat(Tail(ss))

\* the lists the calls of hist gave to the list field whose replacing method
\* is rep, whose appending methods are add1 (one string) and addn (a list):
\* the calls from the last rep on, or all of them when rep was never called
C24_Given(rep, add1, addn) ==
    LET mine(e) == e.f \in {rep, add1, addn}
        es == SelectSeq(hist, mine)
        reps == {i \in DOMAIN es : es[i].f = rep}
        from == IF reps = {} THEN 1
                ELSE CHOOSE i \in reps : \A j \in reps : j <= i
    IN  [i \in 1..(Len(es) - from + 1) |->
            IF es[from + i - 1].f = add1 THEN <<es[from + i - 1].x>>
            ELSE es[from + i - 1].x]

\* the value the claim gives the list field after the calls of hist
C24_Expected(rep, add1, addn) ==
    IF \A i \in DOMAIN hist : hist[i].f \notin {rep, add1, addn} THEN None
    ELSE Some(C24_Concat(C24_Given(rep, add1, addn)))

\* C24: in a CompletionRequestBodyBuilder the prompt list is the strings of
\* the last prompts(...) call followed, in call order, by those of every
\* add_prompt and add_prompts call after it (all such calls when prompts was
\* never called, unset when there was none); so prompts(a) then
\* add_prompts(b) gives the builder prompts(a followed by b) gives, and
\* add_prompt(p) on a fresh builder gives the list [p]. The same holds of
\* stop with stops, add_stop and add_stops.
C24_AddAppendsSetReplaces ==
    body.family = Builder =>
        /\ body.opt["prompt"] = C24_Expected("prompts", "add_prompt", "add_prompts")
        /\ body.opt["stop"] = C24_Expected("stops", "add_stop", "add_stops")
        /\ (Len(hist) = 2 /\ hist[1].f = "prompts" /\ hist[2].f = "add_prompts") =>
              body = prompts(CompletionRequestBodyBuilder_new(body.model),
                             hist[1].x \o hist[2].x)
        /\ (Len(hist) = 2 /\ hist[1].f = "stops" /\ hist[2].f = "add_stops") =>
              body = stops(CompletionRequestBodyBuilder_new(body.model),
                           hist[1].x \o hist[2].x)
        /\ (Len(hist) = 1 /\ hist[1].f = "add_prompt") =>
              body.opt["prompt"] = Some(<<hist[1].x>>)
        /\ (Len(hist) = 1 /\ hist[1].f = "add_stop") =>
              body.opt["stop"] = Some(<<hist[1].x>>)

\* prompts(["a", "b"]) followed by add_prompts(["Say hi"])
C24_Witness ==
    /\ body.family = Builder
    /\ Len(hist) = 2
    /\ hist[1].f = "prompts" /\ hist[1].x = <<"a", "b">>
    /\ hist[2].f = "add_prompts" /\ hist[2].x = <<"Say hi">>
    /\ body.opt["prompt"] = Some(<<"a", "b", "Say hi">>)

---------------------------------------------------------------------------
(* C25 *)

\* the call c is over: its code has no statement left to run and it does not
\* wait for the transport
C25_Over(c) == calls[c].pc \notin {"idle", "to_json", "post", "send", "json"}

\* the call c returned a typed Response or a typed Error
C25_TypedOutcome(c) ==
    /\ calls[c].outcome # NotCalled
    /\ IF calls[c].outcome.ok
       THEN DOMAIN calls[c].outcome.val =
                {StructFields(Response(body.family))[i].name :
                    i \in DOMAIN StructFields(Response(body.family))}
       ELSE calls[c].outcome.err.variant \in
                {"ModelError", "SerializationError", "ReqwestError", "ParseError"}

\* C25: a call of execute or execute_blocking that is over has returned
\* exactly one outcome, a typed Response or a typed Error; a call whose
\* compatibility check or serialization failed is over without a POST and
\* without an answer of the transport.
C25_EveryCallReturnsTyped ==
    \A c \in Calls :
        /\ C25_Over(c) => C25_TypedOutcome(c)
        /\ (calls[c].pc # "idle" /\ (~Compatible \/ SerializationFailed(c))) =>
              /\ C25_Over(c)
              /\ calls[c].sent = <<>>
              /\ ~Answered(c)

\* how far a call has come
C25_Rank(pc) ==
    CASE pc = "idle" -> 0
      [] pc = "to_json" -> 1
      [] pc = "post" -> 2
      [] pc = "send" -> 3
      [] pc = "json" -> 4
      [] OTHER -> 5

\* For a key and organization that are valid header values: every step
\* brings one call nearer its end and sets no call back, a call ends only by
\* returning, and what a call returned stays what it returned; so a call
\* whose statements are run and whose POST the transport answers is over
\* after at most five steps.
C25_RunsToItsEndOnValidHeaders ==
    /\ [][/\ \A c \in Calls : C25_Rank(calls'[c].pc) >= C25_Rank(calls[c].pc)
          /\ \E c \in Calls : C25_Rank(calls'[c].pc) > C25_Rank(calls[c].pc)
          /\ \A c \in Calls : Done(c) => calls'[c] = calls[c]]_vars
    /\ [](\A c \in Calls : C25_Over(c) => Done(c))

---------------------------------------------------------------------------
(* Model::request_text_completion, request_chat_completion and their
   blocking forms (the request! macro) *)

\* the families request! is invoked for
RequestFamilies == {"TextCompletion", "ChatCompletion"}

\* Self::[< $name:snake:upper S_COMPATIBLE >]
S_COMPATIBLE(F) ==
    CASE F = "TextCompletion" -> TEXT_COMPLETIONS_COMPATIBLE
      [] F = "ChatCompletion" -> CHAT_COMPLETIONS_COMPATIBLE

\* [< $name:snake:upper _URL >]
FAMILY_URL(F) ==
    CASE F = "TextCompletion" -> TEXT_COMPLETION_URL
      [] F = "ChatCompletion" -> CHAT_COMPLETION_URL

\* (variant of request_check) the check as the payload needs it: the model
\* the body is bound to is checked too
request_check_body_model(call, self, b) ==
    IF \/ self.id \notin Range(S_COMPATIBLE(b.family))
       \/ b.model.id \notin Range(S_COMPATIBLE(b.family))
    THEN Return(Step(call, "check", "done"),
                Err(FromModelError(model_error(b.family))))
    ELSE Step(call, "check", "to_json")

\* if !Self::<FAMILY>S_COMPATIBLE.contains(&self.id.as_str()) { return Err(..) }
request_check(call, self, b) ==
    IF self.id \notin Range(S_COMPATIBLE(b.family))
    THEN Return(Step(call, "check", "done"),
                Err(FromModelError(model_error(b.family))))
    ELSE Step(call, "check", "to_json")

\* let json = body.to_json()?;
request_to_json(call, b) ==
    LET j == to_json(b)
        c == [call EXCEPT !.json = j]
    IN  IF ~j.ok
        THEN Return(Step(c, "to_json", "done"), Err(FromSerdeJsonError(j.err)))
        ELSE Step(c, "to_json", "post")

\* self.<mode>_client.post(<FAMILY>_URL).headers(self.common_headers()).json(&json).send()
request_post(call, self, b) ==
    LET hs == common_headers(self)
        rq == HttpPost(IF call.mode = "blocking" THEN "blocking_client"
                       ELSE "async_client",
                       FAMILY_URL(b.family), hs, call.json.val)
    IN  IF IsPanic(hs) THEN Unwind(call)
        ELSE Step([call EXCEPT !.sent = Append(@, rq)], "post", "send")

\* .send()? / .send().await?: send's result r comes back
request_send(call, r) ==
    LET c == [call EXCEPT !.res = r]
    IN  IF ~r.ok
        THEN Return(c, Err(FromReqwestError(r.err)))
        ELSE [c EXCEPT !.pc = "json"]

\* Ok(res.json()?) / Ok(res.json().await?)
request_json(call, b) ==
    LET d == ResponseJson(b.family, call.res.val)
    IN  IF ~d.ok
        THEN Return(Step(call, "parse", "done"), Err(FromReqwestError(d.err)))
        ELSE Return(Step(call, "parse", "done"), Ok(d.val))

\* the call made through Model::request_*, and the one made through execute
ViaModel == 1
ViaBody == 2

\* A Model handle, and a body built on a Model handle that may be another
InitModel ==
    /\ handle \in {Ok(m) : m \in Models}
    /\ \E F \in Families, m \in Models :
         \E req \in ReqArgs(F) : body = init(F, m, req)
    /\ hist = <<>>
    /\ json = NotCalled
    /\ calls = [c \in Calls |-> Idle]
    /\ client = [api_key |-> ApiKey, organization |-> None]
    /\ http = <<>>
    /\ models = NotCalled

\* handle.request_<family>(body) or its blocking form, in mode m: the body is
\* moved into the call, which runs up to the compatibility check
RequestCheck(m) ==
    /\ body.family \in RequestFamilies
    /\ calls[ViaModel].pc = "idle"
    /\ calls[ViaBody].pc \in {"idle", "done", "panicked"}
    /\ calls' = [calls EXCEPT ![ViaModel] =
                    request_check([@ EXCEPT !.mode = m], handle.val, body)]
    /\ UNCHANGED <<body, hist, json, clientvars>>

RequestSerialize ==
    /\ calls[ViaModel].pc = "to_json"
    /\ calls' = [calls EXCEPT ![ViaModel] = request_to_json(@, body)]
    /\ UNCHANGED <<body, hist, json, clientvars>>

RequestPost ==
    /\ calls[ViaModel].pc = "post"
    /\ calls' = [calls EXCEPT ![ViaModel] = request_post(@, handle.val, body)]
    /\ UNCHANGED <<body, hist, json, clientvars>>

RequestSendReturns(r) ==
    /\ calls[ViaModel].pc = "send"
    /\ calls' = [calls EXCEPT ![ViaModel] = request_send(@, r)]
    /\ UNCHANGED <<body, hist, json, clientvars>>

RequestParse ==
    /\ calls[ViaModel].pc = "json"
    /\ calls' = [calls EXCEPT ![ViaModel] = request_json(@, body)]
    /\ UNCHANGED <<body, hist, json, clientvars>>

\* body.execute() or body.execute_blocking(), before the body is moved
ExecuteBody ==
    \/ \E m \in Modes : calls[ViaModel].pc = "idle" /\ Check(ViaBody, m)
    \/ Serialize(ViaBody)
    \/ Post(ViaBody)
    \/ \E r \in SendResults(body.family) : SendReturns(ViaBody, r)
    \/ Parse(ViaBody)

NextModel ==
    \/ \E m \in Modes : RequestCheck(m)
    \/ RequestSerialize
    \/ RequestPost
    \/ \E r \in SendResults(body.family) : RequestSendReturns(r)
    \/ RequestParse
    \/ ExecuteBody

SpecModel == InitModel /\ [][NextModel]_vars

---------------------------------------------------------------------------
(* C26 *)

\* the "model" member of the payload of request q
C26_PayloadModel(q) == q.json.o["model"].s

\* C26: the "model" of the payload of every POST, by execute or by
\* Model::request_*, is in the compatible-model set of the family whose URL
\* it is sent to; for a call through Model::request_* it is the id of the
\* handle, the id that was checked.
C26_PayloadModelCompatible ==
    /\ \A c \in Calls : \A i \in DOMAIN calls[c].sent :
          /\ calls[c].sent[i].url = URL(body.family)
          /\ C26_PayloadModel(calls[c].sent[i]) \in COMPATIBLE_MODELS(body.family)
    /\ \A i \in DOMAIN calls[ViaModel].sent :
          C26_PayloadModel(calls[ViaModel].sent[i]) = handle.val.id

---------------------------------------------------------------------------
(* C27 *)

\* the Model constant the claim pairs with each family
C27_ModelConstant(F) ==
    CASE F = "TextCompletion" -> TEXT_COMPLETIONS_COMPATIBLE
      [] F = "ChatCompletion" -> CHAT_COMPLETIONS_COMPATIBLE
      [] F = "Edit" -> EDITS_COMPATIBLE

\* the call c stopped at its compatibility check
C27_Refused(c) == calls[c].pc = "done" /\ calls[c].steps = <<"check">>

\* C27: for each family the list of the rq attribute holds exactly the
\* identifiers of the Model constant; so for one model id the check of
\* execute and the check of Model::request_* both pass or both refuse, and
\* the list the ModelError message prints holds the id exactly when they pass.
C27_TablesAgree ==
    /\ \A F \in Families : COMPATIBLE_MODELS(F) = Range(C27_ModelConstant(F))
    /\ ( /\ body.family \in RequestFamilies
         /\ handle.val.id = body.model.id
         /\ calls[ViaModel].pc # "idle"
         /\ calls[ViaBody].pc # "idle" ) =>
            /\ C27_Refused(ViaModel) <=> C27_Refused(ViaBody)
            /\ C27_Refused(ViaBody) <=>
                  body.model.id \notin
                      Range(ModelError_fmt(model_error(body.family)).list)
            /\ C27_Refused(ViaBody) =>
                  calls[ViaModel].outcome = calls[ViaBody].outcome

\* gpt-3.5-turbo was checked for the ChatCompletion family by execute and by
\* request_chat_completion
C27_Witness ==
    /\ body.family = "ChatCompletion"
    /\ body.model.id = "gpt-3.5-turbo"
    /\ handle.val.id = "gpt-3.5-turbo"
    /\ calls[ViaModel].pc # "idle"
    /\ calls[ViaBody].pc # "idle"

---------------------------------------------------------------------------
(* C28 *)

\* the field a method of the body or of the builder writes
C28_Field(m) ==
    CASE m \in {"prompts", "add_prompt", "add_prompts"} -> "prompt"
      [] m \in {"stops", "add_stop", "add_stops"} -> "stop"
      [] OTHER -> m

\* calls the step could have made instead, one for each kind of method
C28_BuilderOthers ==
    << [f |-> "suffix", x |-> "Say hi"],
       [f |-> "max_tokens", x |-> 16],
       [f |-> "stops", x |-> <<"a", "b">>],
       [f |-> "add_prompt", x |-> "Say hi"],
       [f |-> "logit_bias", x |-> << <<"50256", -100>> >>] >>

\* the step called the method hist' ends with
C28_Called == hist' # hist /\ Len(hist') = Len(hist) + 1

\* C28: a with_<f> call (a setter of the builder) changes only its field: the
\* bound model, the required fields and every other optional field keep
\* their values; and a call on another field made before it or after it
\* yields the same body.
C28_SetterChangesOnlyItsField ==
    [][ C28_Called =>
          LET e == hist'[Len(hist')]
              f == C28_Field(e.f)
          IN  /\ body'.family = body.family
              /\ body'.model = body.model
              /\ body.family # Builder => body'.req = body.req
              /\ DOMAIN body'.opt = DOMAIN body.opt
              /\ \A g \in DOMAIN body.opt \ {f} : body'.opt[g] = body.opt[g]
              /\ body.family # Builder => body'.opt[f] = Some(e.x)
              /\ e.f \in PlainSetters /\ body.family = Builder =>
                    body'.opt[f] = Some(e.x)
              /\ body.family = Builder =>
                    \A i \in DOMAIN C28_BuilderOthers :
                        LET o == C28_BuilderOthers[i]
                        IN  C28_Field(o.f) # f =>
                              invoke(body', o.f, o.x) =
                                  invoke(invoke(body, o.f, o.x), e.f, e.x)
              /\ body.family # Builder =>
                    \A g \in OptFields(body.family) \ {f} :
                        \A x \in Values(FieldType(g)) :
                            with(body', g, x) = with(with(body, g, x), e.f, e.x)
    ]_vars

\* a second call set a field other than the first call's, on a body and on a
\* builder
C28_Witness ==
    /\ body.family \notin {Builder, "none"}
    /\ Len(hist) = 2
    /\ hist[1].f # hist[2].f
    /\ body.opt[hist[1].f].some
    /\ body.opt[hist[2].f].some

C28_WitnessBuilder ==
    /\ body.family = Builder
    /\ Len(hist) = 2
    /\ hist[1].f = "temperature"
    /\ hist[2].f = "max_tokens"
    /\ body.opt["temperature"].some
    /\ body.opt["max_tokens"].some

---------------------------------------------------------------------------
(* C29 *)

\* the headers are the Authorization header of the key and, for an
\* organization, the OpenAI-Organization header
C29_Carries(rq, m) ==
    /\ ~IsPanic(rq.headers)
    /\ rq.headers = common_headers(m)
    /\ "Authorization" \in DOMAIN rq.headers

\* C29: for every API key string and every organization string,
\* retrieve_model_info, list_models and execute do not panic while they build
\* the common headers: each has sent a request carrying the headers or has
\* returned a typed Error.
C29_HeadersNeverAbort ==
    /\ ~IsPanic(handle)
    /\ ~IsPanic(models)
    /\ \A i \in DOMAIN http : C29_Carries(http[i].req, ClientKeys(client))
    /\ \A c \in Calls :
          /\ calls[c].pc # "panicked"
          /\ calls[c].pc \notin {"idle", "to_json", "post"} =>
                \/ /\ calls[c].sent # <<>>
                   /\ \A i \in DOMAIN calls[c].sent :
                          C29_Carries(calls[c].sent[i], body.model)
                \/ /\ calls[c].outcome # NotCalled
                   /\ ~calls[c].outcome.ok

===========================================================================
